---- MODULE Spec2Model ----
(***************************************************************************)
(* A model of the virtual CXL switch (VCS): the four class routers of     *)
(* routers.py, the vPPB bind slots of port_binder.py and the CXL.io        *)
(* completion constructors of transaction.py.                              *)
(*                                                                         *)
(* Queues are sequences of packet records.  One action is one iteration   *)
(* of a routing task's `while True` loop (get, route, put), or one call   *)
(* of a PortBinder / router method up to its next suspension point.       *)
(***************************************************************************)
EXTENDS Integers, Sequences, FiniteSets, TLC

\* ------------------------------------------------------------------ bounds
\* Packets that may be inside the switch (on any queue) at the same time.
MaxInFlight == 1
\* bind_vppb / unbind_vppb calls issued in one run of the bind model.
MaxCalls == 2

\* ------------------------------------------------------- input domains
\* Downstream vPPB indices of the VCS (bind slot indices).
Vppbs == {0, 1}
\* Physical ports: port 0 is the USP, the others are DSPs.
Ports == {0, 1, 2}
\* vcs_id values a VCS is constructed with.
VcsIds == {0, 1}
\* Requester ids and tags a host puts in its requests.
ReqIds == {1, 2}
Tags == {0, 5}
\* MemRd/MemWr length fields, in DWORDs.
LenDws == {1, 2}
\* Traffic classes: one FifoPair each per connection.
Classes == {"cfg", "mmio", "mem", "cache"}

\* Python's None where an Optional[int] is modelled.
None == -1

\* The None sentinel a queue carries to stop its consumer.
NonePkt == [type |-> "None"]

\* A queue that hands out the newest item first.
Put_in_front(queue, item) == <<item>> \o queue

\* asyncio.Queue.put: the item goes behind the items already queued.
Put(queue, item) == Append(queue, item)

\* A local variable of a loop that no iteration has assigned yet.
Unbound == [type |-> "unbound"]
UnboundPort == -2

VARIABLES
    vcs_id,       \* CxlRouter._vcs_id
    bind_slots,   \* PortBinder._bind_slots: [status, processor, dsp] per vPPB
    proc_state,   \* lifecycle state of every bind processor created so far
    us_h2t,       \* upstream vPPB connection, host_to_target queue, per class
    us_t2h,       \* upstream vPPB connection, target_to_host queue, per class
    ds_h2t,       \* downstream vPPB i upstream connection, host_to_target
    ds_t2h,       \* downstream vPPB i upstream connection, target_to_host
    h2t_task,     \* per router: its host_to_target routing task is alive
    t2h_tasks,    \* per router and vPPB: live target_to_host routing tasks
    router_fifos, \* per router and vPPB: _downstream_connection_fifos[vppb]
    call,         \* the bind_vppb / unbind_vppb call in progress, if any
    hist,         \* history: the last bind and what preceded it
    bi_decoder,   \* per downstream vPPB: BI decoder control [bi_enable, bi_forward]
    hdm_bi_capable,    \* upstream vPPB's HDM decoder manager: is_bi_capable()
    cache_id_decoder,  \* per downstream vPPB: Cache ID decoder control
    last,         \* the last packet step or bind / unbind step: [op, out, kind, port]
    ports,        \* SwitchConnectionManager: per port [connected, packet_processor]
    socks,        \* the TCP sockets opened to the switch's listener
    clients,      \* the SwitchConnectionClients
    events,       \* the PortUpdateEvents emitted so far, in order
    composite,    \* which composite component is built, and its options
    comp_status,  \* lifecycle status of the composite ("parent") and its children
    ready,        \* per component: it has signalled ready
    stage,        \* where the composite's _run is: the start groups done so far
    cxl_mem_packet,  \* CxlMemRouter host_to_target loop: its local cxl_mem_packet
    mem_target_port, \* CxlMemRouter host_to_target loop: its local target_port
    cache_route_table,  \* upstream vPPB: Cache Route Table, cache_id -> port_number
    sent,         \* history: how many numbered packets have been sent
    putters,      \* per class: target_to_host tasks blocked in the upstream put
    arrived,      \* history: the numbered packets put upstream, in order
    stop_called,  \* the routers (by class) whose stop() has put its sentinels
    loop_time,    \* the event loop's clock, loop.time(), in seconds
    created,      \* a packet constructor's call: its arguments and what it returned
    cci_requests, \* the CCI requests of the fabric manager not yet executed
    cci_executor, \* the CCI executor: where its command is, and the request
    cci_h2t,      \* per physical port: cci_fifo.host_to_target
    cci_t2h,      \* per physical port: cci_fifo.target_to_host
    cci_responses \* the CCI responses sent back to the fabric manager, in order

qvars == <<us_h2t, us_t2h, ds_h2t, ds_t2h>>
bvars == <<bind_slots, proc_state>>
tvars == <<h2t_task, t2h_tasks, router_fifos>>
cvars == <<call, hist>>
dvars == <<bi_decoder, hdm_bi_capable, cache_id_decoder>>
mvars == <<ports, socks, clients, events>>
lvars == <<composite, comp_status, ready, stage>>
nvars == <<cache_route_table, sent, putters, arrived, stop_called, loop_time>>
xvars == <<created, cci_requests, cci_executor, cci_h2t, cci_t2h, cci_responses>>
ovars == <<mvars, lvars, cxl_mem_packet, mem_target_port, nvars, xvars>>
vars == <<vcs_id, bind_slots, proc_state, us_h2t, us_t2h, ds_h2t, ds_t2h,
          h2t_task, t2h_tasks, router_fifos, call, hist,
          bi_decoder, hdm_bi_capable, cache_id_decoder, last,
          ports, socks, clients, events, composite, comp_status, ready, stage,
          cxl_mem_packet, mem_target_port, cache_route_table, sent, putters, arrived,
          stop_called, loop_time, created, cci_requests, cci_executor, cci_h2t,
          cci_t2h, cci_responses>>

\* ---------------------------------------------------------------- helpers
Min(S) == CHOOSE x \in S : \A y \in S : x <= y

SeqToSet(s) == {s[k] : k \in 1..Len(s)}

\* A record with one more (history) field h.
WithH(r, h) == [f \in (DOMAIN r) \cup {"h"} |-> IF f = "h" THEN h ELSE r[f]]

\* htotlp16 / tlptoh16: swap the two bytes of a 16-bit value.
htotlp16(n) == ((n % 256) * 256) + ((n \div 256) % 256)
tlptoh16(n) == ((n % 256) * 256) + ((n \div 256) % 256)

EmptyQueues == [c \in Classes |-> <<>>]
EmptyDsQueues == [c \in Classes |-> [i \in Vppbs |-> <<>>]]

\* Sum of the lengths of the queues f[x], x in S.
RECURSIVE SumLen(_, _)
SumLen(f, S) ==
    IF S = {} THEN 0
    ELSE LET x == CHOOSE y \in S : TRUE
         IN Len(f[x]) + SumLen(f, S \ {x})

\* Sum of the lengths of the queues f[c][i], c in C, i a vPPB.
RECURSIVE SumDsLen(_, _)
SumDsLen(f, C) ==
    IF C = {} THEN 0
    ELSE LET c == CHOOSE y \in C : TRUE
         IN SumLen(f[c], Vppbs) + SumDsLen(f, C \ {c})

\* Packets currently on any queue of the switch (sentinels included).
InFlight ==
    SumLen(us_h2t, Classes) + SumLen(us_t2h, Classes)
    + SumDsLen(ds_h2t, Classes) + SumDsLen(ds_t2h, Classes)

\* ------------------------------------------------- vPPBs and routing table
\* Vppb.get_upstream_connection(): the connection object of vPPB i, named by
\* the vPPB's index.  The routers' constructors dereference it for every bind
\* slot, so it is never None.
get_upstream_connection(i) == i

\* DownstreamVppb.get_secondary_bus_number(): the bus behind vPPB i, as the
\* host programmed it during enumeration (vPPB#1 has bus 1, ...).
get_secondary_bus_number(i) == i + 1
get_subordinate_bus_number(i) == i + 1

\* BindSlot status of vPPB i.
IsBound(i) == bind_slots[i].status = "BOUND"

\* RoutingTable.get_config_space_target_port(dest_id): the bound vPPB whose
\* secondary..subordinate bus window holds the destination bus, or None.
get_config_space_target_port(dest_id) ==
    LET bus == dest_id \div 256
        hits == {i \in Vppbs : /\ IsBound(i)
                               /\ get_secondary_bus_number(i) <= bus
                               /\ bus <= get_subordinate_bus_number(i)}
    IN IF hits = {} THEN None ELSE Min(hits)

\* MMIO window of vPPB i: [MmioBase(i), MmioBase(i) + MmioSize).
MmioSize == 8
MmioBase(i) == 16 * (i + 1)

\* RoutingTable.get_mmio_target_port(address): the bound vPPB whose MMIO
\* decoder covers the address, or None.
get_mmio_target_port(address) ==
    LET hits == {i \in Vppbs : /\ IsBound(i)
                               /\ MmioBase(i) <= address
                               /\ address < MmioBase(i) + MmioSize}
    IN IF hits = {} THEN None ELSE Min(hits)

\* ---------------------------------------------------- CXL.io completions
\* CXL_IO_CPL_STATUS
CPL_STATUS_SC == 0
CPL_STATUS_UR == 1

\* A create that stores its first two arguments the wrong way round.
CxlIoCompletionPacket_create_swapped(req_id, tag, cpl_id, status) ==
    [type |-> "Cpl",
     cpl_id |-> htotlp16(cpl_id),
     status |-> status,
     byte_count |-> 4,
     len_dw |-> 0,
     req_id |-> htotlp16(tag),
     tag |-> req_id]

\* CxlIoCompletionPacket.create(req_id, tag, cpl_id=0, status=SC, ld_id=0)
CxlIoCompletionPacket_create(req_id, tag, cpl_id, status) ==
    [type |-> "Cpl",
     cpl_id |-> htotlp16(cpl_id),
     status |-> status,
     byte_count |-> 4,
     len_dw |-> 0,
     req_id |-> htotlp16(req_id),
     tag |-> tag]

\* CxlIoCompletionWithDataPacket.create(req_id, tag, data, cpl_id=0,
\*                                      status=SC, pload_len=4, ld_id=0)
CxlIoCompletionWithDataPacket_create(req_id, tag, data, cpl_id, status, pload_len) ==
    [type |-> "CplD",
     cpl_id |-> htotlp16(cpl_id),
     status |-> status,
     req_id |-> htotlp16(req_id),
     tag |-> tag,
     len_dw |-> (pload_len \div 4) % 1024,
     byte_count |-> pload_len % 4096,
     data_len |-> pload_len,
     data |-> data]

\* CxlIoMemReqPacket.get_data_size(): the TLP length field, in bytes.
get_data_size(packet) == packet.len_dw * 4

IsCfgReq(p) == p.type \in {"CfgRd", "CfgWr"}
IsMmioReq(p) == p.type \in {"MRd", "MWr"}
IsCompletion(p) == p.type \in {"Cpl", "CplD"}

\* ------------------------------------------------------------ bind slots
\* PortBinder._dummy is processor 0; the processor a VCS starts for its
\* initially bound vPPB i is i + 1; those bind_vppb creates come after.
DummyProc == 0
ProcIds == 0..(Cardinality(Vppbs) + MaxCalls)

\* BindSlot(vppb): status INIT, processor None, dsp None.
InitSlot == [status |-> "INIT", processor |-> None, dsp |-> None]

\* A slot bound to DSP port i + 1 by bind processor i + 1.
BoundSlot(i) == [status |-> "BOUND", processor |-> i + 1, dsp |-> i + 1]

\* No bind_vppb / unbind_vppb call in progress; n calls were made so far.
IdleCall(n) == [op |-> "idle", pc |-> "idle", vppb |-> None, port |-> None,
                k |-> 0, n |-> n, snap |-> <<>>]

\* History of the completed calls: phase "bound" after bind_vppb(vppb, port)
\* has completed, with the routing state it found (snap); phase "unbound"
\* after the next call was unbind_vppb(vppb) and has completed; "none"
\* otherwise.  unbound_once: the vPPBs some completed call has unbound.
NoHist == [phase |-> "none", vppb |-> None, port |-> None, snap |-> <<>>,
           unbound_once |-> {}]

\* ------------------------------------------------------- decoder controls
\* CxlBIDecoderControlRegister after reset: bi_forward = 0, bi_enable = 0.
ResetBiControl == [bi_enable |-> 0, bi_forward |-> 0]

\* Cache ID decoder control after reset.
ResetCacheIdControl ==
    [assign_cache_id |-> 0, forward_cache_id |-> 0, local_cache_id |-> 0]

\* ----------------------------------------------- switch ports and sockets
\* The switch's configured ports are 0 .. PortCount - 1; a client may declare
\* any index up to PortCount, the first one out of range.
PortCount == 2
MaxSocks == 3
MaxAttempts == 2
SwitchPorts == 0..(PortCount - 1)
PortIndexes == 0..PortCount
Socks == 1..MaxSocks
Clients == {1, 2}

\* SIDEBAND_TYPES
CONNECTION_REQUEST == 0
CONNECTION_ACCEPT == 1
CONNECTION_REJECT == 2

\* INJECTED_ERRORS
NoInjectedError == "NONE"
InjectedErrors == {"NON_SIDEBAND", "NON_CONNNECTION_REQUEST"}

\* A port of the switch connection manager before any connection.
DisconnectedPort == [connected |-> FALSE, packet_processor |-> None]

\* A socket nobody has opened yet.  req: the first packet the client wrote,
\* until the switch reads it; resp: what the switch wrote and the client has
\* not read yet; srv: where the switch's handler of this socket is; port:
\* the port the handshake was accepted for; eof: the client's end is closed;
\* ups: the connected=true events emitted for this socket's handshake; why:
\* why the handshake was rejected.
FreeSock == [owner |-> None, req |-> None, resp |-> <<>>, srv |-> "free",
             port |-> None, eof |-> FALSE, ups |-> 0, why |-> ""]

\* SwitchConnectionClient.__init__
NewClient == [pc |-> "new", port_index |-> 0, retry |-> TRUE,
              injected_error |-> NoInjectedError, sock |-> None, attempts |-> 0,
              connect_error |-> "", error |-> "", end_time |-> None,
              wake |-> None, stop_signal |-> FALSE, stop_error |-> ""]

ManagerIdle ==
    /\ ports = [p \in SwitchPorts |-> DisconnectedPort]
    /\ socks = [s \in Socks |-> FreeSock]
    /\ clients = [c \in Clients |-> NewClient]
    /\ events = <<>>

\* ----------------------------------------------------- component lifecycle
\* The composite components and, in the order of their _run, the groups of
\* children each starts (create_task(child.run())) and the children whose
\* wait_for_ready() it awaits before it goes on.
Composites ==
    {[name |-> "CxlIoRouter", enable_hm |-> FALSE],
     [name |-> "CxlSwitch", enable_hm |-> FALSE],
     [name |-> "HostManager", enable_hm |-> FALSE],
     [name |-> "CxlHost", enable_hm |-> FALSE],
     [name |-> "CxlHost", enable_hm |-> TRUE]}

\* CxlIoRouter._run, CxlSwitch._run (start_mctp off), HostManager._run and
\* CxlHost._run.
RunGroups(cmp) ==
    CASE cmp.name = "CxlIoRouter" ->
           <<[start |-> {"config_space_router", "mmio_router"},
              wait |-> {"config_space_router", "mmio_router"}]>>
      [] cmp.name = "CxlSwitch" ->
           <<[start |-> {"switch_connection_manager", "physical_port_manager",
                         "virtual_switch_manager"},
              wait |-> {"switch_connection_manager", "physical_port_manager",
                        "virtual_switch_manager"}]>>
      [] cmp.name = "HostManager" ->
           <<[start |-> {"host_conn_server", "util_conn_server"},
              wait |-> {"host_conn_server", "util_conn_server"}]>>
      [] OTHER ->
           <<[start |-> {"irq_manager", "cxl_memory_hub"},
              wait |-> {"irq_manager", "cxl_memory_hub"}],
             [start |-> {"cpu"} \cup (IF cmp.enable_hm
                                      THEN {"host_mgr_conn_client"} ELSE {}),
              wait |-> IF cmp.enable_hm THEN {"host_mgr_conn_client"} ELSE {}]>>

\* The children whose stop() the composite's _stop calls.
StopGroup(cmp) ==
    IF cmp.name = "CxlHost"
    THEN {"cxl_memory_hub", "cpu", "irq_manager"}
    ELSE RunGroups(cmp)[1].start

Children(cmp) == UNION {RunGroups(cmp)[k].start : k \in 1..Len(RunGroups(cmp))}

AllChildren == UNION {Children(cmp) : cmp \in Composites}

Components == {"parent"} \cup AllChildren

LifeIdle ==
    /\ composite = [name |-> "CxlIoRouter", enable_hm |-> FALSE]
    /\ comp_status = [c \in Components |-> "NEW"]
    /\ ready = [c \in Components |-> FALSE]
    /\ stage = 0

\* A Cache Route Table with no target entry.
HistoryIdle ==
    /\ sent = 0
    /\ arrived = <<>>

\* No routing task is blocked in a put and no router has been stopped.
PuttersIdle ==
    /\ putters = [c \in Classes |-> <<>>]
    /\ stop_called = {}

\* The event loop has just started.
ClockIdle == loop_time = 0

\* No packet constructor has been called.
NoCall == [ctor |-> "none"]

CodecIdle == created = NoCall

\* The physical ports of the switch, as the physical port manager numbers them.
PhysicalPorts == 0..(PortCount - 1)

\* The CCI executor waits for a request, and nothing is queued for it.
IdleExecutor == [pc |-> "idle"]

CciIdle ==
    /\ cci_requests = <<>>
    /\ cci_executor = IdleExecutor
    /\ cci_h2t = [p \in PhysicalPorts |-> <<>>]
    /\ cci_t2h = [p \in PhysicalPorts |-> <<>>]
    /\ cci_responses = <<>>

RestIdle ==
    /\ cache_route_table = <<>>
    /\ HistoryIdle
    /\ PuttersIdle
    /\ ClockIdle
    /\ CodecIdle
    /\ CciIdle

OthersIdle == ManagerIdle /\ LifeIdle /\ RestIdle

\* ------------------------------------------------------------- the host
\* What the host put in a request: kept beside the packet as history.
HostStamp(rid, tag) == [req_id |-> htotlp16(rid), tag |-> tag]

\* CxlIoCfgRdPacket.create / CxlIoCfgWrPacket.create(id, ..., req_id, tag):
\* the header stores htotlp16(req_id) and dest_id = htotlp16(id).
CxlIoCfgReqPacket_create(type, id, rid, tag) ==
    [type |-> type, req_id |-> htotlp16(rid), tag |-> tag,
     dest_id |-> htotlp16(id), h |-> HostStamp(rid, tag)]

\* CxlIoMemRdPacket.create / CxlIoMemWrPacket.create, by the header fields
\* the router reads: the DWORD address and the length in DWORDs.
CxlIoMemReqPacket_create(type, addr, len_dw, rid, tag) ==
    [type |-> type, req_id |-> htotlp16(rid), tag |-> tag,
     addr |-> addr, len_dw |-> len_dw, h |-> HostStamp(rid, tag)]

\* Destination buses the host addresses: behind each vPPB, and one beyond.
Buses == {get_secondary_bus_number(i) : i \in Vppbs}
         \cup {1 + get_secondary_bus_number(i) : i \in Vppbs}

\* MMIO addresses the host reads and writes: below every window, the base of
\* each window, and the first address beyond the top of the first window.
MmioAddrs == {0} \cup {MmioBase(i) : i \in Vppbs}
                 \cup {MmioBase(0) + MmioSize}

\* The host sends a configuration request of one of the given types, with one
\* of the given req_ids and tags, to bus:00.0.
HostSendCfg(types, rids, tags) ==
    /\ InFlight < MaxInFlight
    /\ \E type \in types, bus \in Buses, rid \in rids, tag \in tags :
          /\ us_h2t' = [us_h2t EXCEPT !["cfg"] =
                 Append(@, CxlIoCfgReqPacket_create(type, bus * 256, rid, tag))]
          /\ last' = [op |-> "host_send", out |-> "cfg", kind |-> type, port |-> None]
    /\ UNCHANGED <<ovars, vcs_id, dvars, cvars, bvars, us_t2h, ds_h2t, ds_t2h, tvars>>

\* The host sends a memory-mapped I/O read or write.
HostSendMmio ==
    /\ InFlight < MaxInFlight
    /\ \E type \in {"MRd", "MWr"}, addr \in MmioAddrs, len_dw \in LenDws,
          rid \in ReqIds, tag \in Tags :
          /\ us_h2t' = [us_h2t EXCEPT !["mmio"] =
                 Append(@, CxlIoMemReqPacket_create(type, addr, len_dw, rid, tag))]
          /\ last' = [op |-> "host_send", out |-> "mmio", kind |-> type, port |-> None]
    /\ UNCHANGED <<ovars, vcs_id, dvars, cvars, bvars, us_t2h, ds_h2t, ds_t2h, tvars>>

\* The host takes a packet from the upstream target_to_host queue.
HostRecv(c) ==
    /\ us_t2h[c] # <<>>
    /\ us_t2h' = [us_t2h EXCEPT ![c] = Tail(@)]
    /\ last' = [op |-> "host_recv", out |-> c, kind |-> Head(us_t2h[c]).type,
                port |-> None]
    /\ UNCHANGED <<ovars, vcs_id, dvars, cvars, bvars, us_h2t, ds_h2t, ds_t2h, tvars>>

\* ----------------------------------------------------------- the devices
\* The completion a target returns for a non-posted CXL.io request: it echoes
\* the request's req_id and tag.
DeviceCompletion(req) ==
    IF req.type = "CfgWr"
    THEN [type |-> "Cpl", cpl_id |-> 0, status |-> CPL_STATUS_SC, byte_count |-> 4,
          len_dw |-> 0, req_id |-> req.req_id, tag |-> req.tag, h |-> req.h]
    ELSE [type |-> "CplD", cpl_id |-> 0, status |-> CPL_STATUS_SC,
          req_id |-> req.req_id, tag |-> req.tag,
          len_dw |-> IF req.type = "MRd" THEN req.len_dw ELSE 1,
          byte_count |-> IF req.type = "MRd" THEN get_data_size(req) ELSE 4,
          data_len |-> IF req.type = "MRd" THEN get_data_size(req) ELSE 4,
          data |-> 1, h |-> req.h]

\* The target behind vPPB i takes a CXL.io request and answers it (a MemWr is
\* posted: no completion).
DeviceRespondIo(c, i) ==
    /\ ds_h2t[c][i] # <<>>
    /\ IsBound(i)
    /\ proc_state[bind_slots[i].processor] = "running"
    /\ LET req == Head(ds_h2t[c][i])
       IN /\ ds_h2t' = [ds_h2t EXCEPT ![c][i] = Tail(@)]
          /\ ds_t2h' = IF req.type = "MWr" THEN ds_t2h
                       ELSE [ds_t2h EXCEPT ![c][i] = Append(@, DeviceCompletion(req))]
          /\ last' = [op |-> "device", out |-> c, kind |-> req.type, port |-> i]
    /\ UNCHANGED <<ovars, vcs_id, dvars, cvars, bvars, us_h2t, us_t2h, tvars>>

\* ------------------------------------------------------ ConfigSpaceRouter
\* ConfigSpaceRouter._send_unsupported_request(req_id, tag): the packet it
\* puts on the upstream target_to_host queue.  The third positional argument
\* of CxlIoCompletionPacket.create is cpl_id, so the status keeps its default.
send_unsupported_request(req_id, tag) ==
    [CxlIoCompletionPacket_create(req_id, tag, CPL_STATUS_UR, CPL_STATUS_SC)
        EXCEPT !.req_id = 0]

\* The request as the router forwards it: req_id rewritten to the VCS id.
RewriteReqId(packet) == [packet EXCEPT !.req_id = vcs_id]

\* One iteration of ConfigSpaceRouter._process_host_to_target_packets.
ConfigSpaceRouter_process_host_to_target_packets ==
    /\ h2t_task["cfg"]
    /\ us_h2t["cfg"] # <<>>
    /\ LET got == Head(us_h2t["cfg"])
           packet == RewriteReqId(got)
           dest_id == tlptoh16(packet.dest_id)
           req_id == tlptoh16(packet.req_id)
           tag == packet.tag
           target_port == get_config_space_target_port(dest_id)
           unroutable == \/ target_port = None
                         \/ target_port >= Cardinality(Vppbs)
                         \/ get_upstream_connection(target_port) = None
       IN /\ IsCfgReq(got)
          /\ us_h2t' = [us_h2t EXCEPT !["cfg"] = Tail(@)]
          /\ IF unroutable
             THEN /\ us_t2h' = [us_t2h EXCEPT !["cfg"] =
                       Append(@, WithH(send_unsupported_request(req_id, tag), got.h))]
                  /\ UNCHANGED ds_h2t
                  /\ last' = [op |-> "cfg_h2t", out |-> "ur", kind |-> got.type,
                              port |-> None]
             ELSE /\ ds_h2t' = [ds_h2t EXCEPT
                       !["cfg"][get_upstream_connection(target_port)] = Append(@, packet)]
                  /\ UNCHANGED us_t2h
                  /\ last' = [op |-> "cfg_h2t", out |-> "fwd", kind |-> got.type,
                              port |-> target_port]
    /\ UNCHANGED <<ovars, vcs_id, dvars, cvars, bvars, ds_t2h, tvars>>

\* A forwarding loop that leaves the completion's req_id as the device set it.
KeepReqId(packet) == packet

\* The completion as the router forwards it upstream: req_id reset to 0.
ResetReqId(packet) == [packet EXCEPT !.req_id = 0]

\* A forwarding loop that takes the sentinel without ending.
IoRouter_process_target_to_host_packets_ignores_sentinel(c, i) ==
    /\ t2h_tasks[c][i] > 0
    /\ ds_t2h[c][i] # <<>>
    /\ LET got == Head(ds_t2h[c][i])
       IN /\ ds_t2h' = [ds_t2h EXCEPT ![c][i] = Tail(@)]
          /\ us_t2h' = IF got = NonePkt THEN us_t2h
                       ELSE [us_t2h EXCEPT ![c] = Append(@, ResetReqId(got))]
          /\ last' = IF got = NonePkt THEN last
                     ELSE [op |-> "io_t2h", out |-> "fwd", kind |-> got.type, port |-> i]
    /\ UNCHANGED <<ovars, vcs_id, dvars, cvars, bvars, us_h2t, ds_h2t, tvars>>

\* One iteration of _process_target_to_host_packets of the ConfigSpaceRouter
\* (c = "cfg") or the MmioRouter (c = "mmio") for vPPB i.
IoRouter_process_target_to_host_packets(c, i) ==
    /\ t2h_tasks[c][i] > 0
    /\ ds_t2h[c][i] # <<>>
    /\ LET got == Head(ds_t2h[c][i])
       IN /\ ds_t2h' = [ds_t2h EXCEPT ![c][i] = Tail(@)]
          /\ IF got = NonePkt
             THEN /\ t2h_tasks' = [t2h_tasks EXCEPT ![c][i] = @ - 1]
                  /\ UNCHANGED us_t2h
                  /\ UNCHANGED last
             ELSE /\ us_t2h' = [us_t2h EXCEPT ![c] = Append(@, ResetReqId(got))]
                  /\ UNCHANGED t2h_tasks
                  /\ last' = [op |-> "io_t2h", out |-> "fwd", kind |-> got.type,
                              port |-> i]
    /\ UNCHANGED <<ovars, vcs_id, dvars, cvars, bvars, us_h2t, ds_h2t, h2t_task, router_fifos>>

\* ------------------------------------------------------------- MmioRouter
\* A _send_completion that leaves pload_len at its default of 4 bytes.
send_completion_default_len(req_id, tag, data, data_len) ==
    [CxlIoCompletionWithDataPacket_create(req_id, tag, data, 0, CPL_STATUS_SC, 4)
        EXCEPT !.req_id = 0]

\* MmioRouter._send_completion(req_id, tag, data, data_len): the packet it
\* puts on the upstream target_to_host queue.
send_completion(req_id, tag, data, data_len) ==
    IF data # None
    THEN [CxlIoCompletionWithDataPacket_create(req_id, tag, data, 0,
                                               CPL_STATUS_SC, data_len)
             EXCEPT !.req_id = 0]
    ELSE [CxlIoCompletionPacket_create(req_id, tag, 0, CPL_STATUS_SC)
             EXCEPT !.req_id = 0]

\* One iteration of MmioRouter._process_host_to_target_packets.
MmioRouter_process_host_to_target_packets ==
    /\ h2t_task["mmio"]
    /\ us_h2t["mmio"] # <<>>
    /\ LET got == Head(us_h2t["mmio"])
           packet == RewriteReqId(got)
           address == packet.addr
           size == get_data_size(packet)
           req_id == tlptoh16(packet.req_id)
           tag == packet.tag
           target_port == get_mmio_target_port(address)
       IN /\ IsMmioReq(got)
          /\ us_h2t' = [us_h2t EXCEPT !["mmio"] = Tail(@)]
          /\ IF target_port = None
             THEN IF got.type = "MRd"
                  THEN /\ us_t2h' = [us_t2h EXCEPT !["mmio"] =
                            Append(@, WithH(send_completion(req_id, tag, 0, size), got.h))]
                       /\ UNCHANGED ds_h2t
                       /\ last' = [op |-> "mmio_h2t", out |-> "zero", kind |-> got.type,
                                   port |-> None]
                  ELSE /\ UNCHANGED <<us_t2h, ds_h2t>>
                       /\ last' = [op |-> "mmio_h2t", out |-> "drop", kind |-> got.type,
                                   port |-> None]
             ELSE IF get_upstream_connection(target_port) = None
                  THEN /\ UNCHANGED <<us_t2h, ds_h2t>>
                       /\ last' = [op |-> "mmio_h2t", out |-> "drop", kind |-> got.type,
                                   port |-> target_port]
                  ELSE /\ ds_h2t' = [ds_h2t EXCEPT
                            !["mmio"][get_upstream_connection(target_port)] =
                                Append(@, packet)]
                       /\ UNCHANGED us_t2h
                       /\ last' = [op |-> "mmio_h2t", out |-> "fwd", kind |-> got.type,
                                   port |-> target_port]
    /\ UNCHANGED <<ovars, vcs_id, dvars, cvars, bvars, ds_t2h, tvars>>

\* ------------------------------------------------ specification: CXL.io
\* A running VCS: every vPPB is either still INIT or bound to its DSP.
InitIo ==
    /\ vcs_id \in VcsIds
    /\ bind_slots \in [Vppbs -> {InitSlot} \cup {BoundSlot(i) : i \in Vppbs}]
    /\ \A i \in Vppbs : bind_slots[i] \in {InitSlot, BoundSlot(i)}
    /\ proc_state = [p \in ProcIds |->
                        IF \E i \in Vppbs : bind_slots[i].processor = p
                        THEN "running" ELSE "unused"]
    /\ us_h2t = EmptyQueues
    /\ us_t2h = EmptyQueues
    /\ ds_h2t = EmptyDsQueues
    /\ ds_t2h = EmptyDsQueues
    /\ h2t_task = [c \in Classes |-> TRUE]
    /\ t2h_tasks = [c \in Classes |-> [i \in Vppbs |-> 1]]
    /\ router_fifos = [c \in Classes |-> [i \in Vppbs |-> get_upstream_connection(i)]]
    /\ call = IdleCall(0)
    /\ hist = NoHist
    /\ bi_decoder = [i \in Vppbs |-> ResetBiControl]
    /\ hdm_bi_capable = TRUE
    /\ cache_id_decoder = [i \in Vppbs |-> ResetCacheIdControl]
    /\ last = [op |-> "init", out |-> "", kind |-> "", port |-> None]
    /\ cxl_mem_packet = Unbound
    /\ mem_target_port = UnboundPort
    /\ OthersIdle

NextIo ==
    \/ HostSendCfg({"CfgRd", "CfgWr"}, ReqIds, Tags)
    \/ HostSendMmio
    \/ ConfigSpaceRouter_process_host_to_target_packets
    \/ MmioRouter_process_host_to_target_packets
    \/ \E c \in {"cfg", "mmio"}, i \in Vppbs :
          IoRouter_process_target_to_host_packets(c, i)
    \/ \E c \in {"cfg", "mmio"}, i \in Vppbs : DeviceRespondIo(c, i)
    \/ \E c \in {"cfg", "mmio"} : HostRecv(c)

SpecIo == InitIo /\ [][NextIo]_vars

\* ------------------------------------------------------- claims: CXL.io
\* The destination of a configuration request has a target vPPB.
CfgRoutable(p) == get_config_space_target_port(tlptoh16(p.dest_id)) # None

\* The step takes a packet from the upstream host_to_target queue of class c.
TakesFromHost(c) == Len(us_h2t'[c]) < Len(us_h2t[c])

\* C1: every CfgRd/CfgWr the ConfigSpaceRouter takes from the upstream cfg
\* host_to_target queue has exactly one outcome: a routable request is put on
\* the target vPPB's cfg host_to_target queue and nothing goes upstream; an
\* unroutable one yields exactly one completion with status UR and the
\* request's tag on the upstream cfg target_to_host queue and nothing goes
\* downstream.
C1_CfgOneOutcome ==
    [][TakesFromHost("cfg") =>
        LET got == Head(us_h2t["cfg"])
            target == get_config_space_target_port(tlptoh16(got.dest_id))
        IN IF CfgRoutable(got)
           THEN /\ Len(ds_h2t'["cfg"][target]) = Len(ds_h2t["cfg"][target]) + 1
                /\ \A i \in Vppbs \ {target} : ds_h2t'["cfg"][i] = ds_h2t["cfg"][i]
                /\ us_t2h' = us_t2h
           ELSE /\ Len(us_t2h'["cfg"]) = Len(us_t2h["cfg"]) + 1
                /\ LET cpl == us_t2h'["cfg"][Len(us_t2h'["cfg"])]
                   IN /\ IsCompletion(cpl)
                      /\ cpl.status = CPL_STATUS_UR
                      /\ cpl.tag = got.tag
                /\ ds_h2t' = ds_h2t]_vars

\* What the code does for C1's unroutable case: one completion, the request's
\* tag, nothing downstream, but status SC and the UR code in cpl_id.
C1_UnroutableAsBuilt ==
    [][(TakesFromHost("cfg") /\ ~CfgRoutable(Head(us_h2t["cfg"]))) =>
        /\ Len(us_t2h'["cfg"]) = Len(us_t2h["cfg"]) + 1
        /\ LET cpl == us_t2h'["cfg"][Len(us_t2h'["cfg"])]
           IN /\ cpl.type = "Cpl"
              /\ cpl.status = CPL_STATUS_SC
              /\ cpl.cpl_id = htotlp16(CPL_STATUS_UR)
              /\ cpl.tag = Head(us_h2t["cfg"]).tag
        /\ ds_h2t' = ds_h2t]_vars

\* A CfgWr with tag 5 to an unroutable bus was just answered.
C1_Witness ==
    /\ last.op = "cfg_h2t" /\ last.out = "ur" /\ last.kind = "CfgWr"
    /\ us_t2h["cfg"] # <<>>
    /\ us_t2h["cfg"][Len(us_t2h["cfg"])].tag = 5

\* C4: in the MmioRouter, a read whose address no MMIO decoder covers yields
\* exactly one completion-with-data on the upstream mmio target_to_host queue,
\* with data zero and the requested length; such a write yields no completion
\* and no downstream packet; a covered request is put on the target vPPB's
\* mmio host_to_target queue and no completion is synthesized.
C4_MmioOutOfRange ==
    [][TakesFromHost("mmio") =>
        LET got == Head(us_h2t["mmio"])
            target == get_mmio_target_port(got.addr)
        IN IF target = None
           THEN IF got.type = "MRd"
                THEN /\ Len(us_t2h'["mmio"]) = Len(us_t2h["mmio"]) + 1
                     /\ LET cpl == us_t2h'["mmio"][Len(us_t2h'["mmio"])]
                        IN /\ cpl.type = "CplD"
                           /\ cpl.data = 0
                           /\ cpl.data_len = get_data_size(got)
                           /\ cpl.len_dw * 4 = get_data_size(got)
                           /\ cpl.byte_count = get_data_size(got)
                     /\ \A c \in Classes \ {"mmio"} : us_t2h'[c] = us_t2h[c]
                     /\ ds_h2t' = ds_h2t
                ELSE /\ us_t2h' = us_t2h
                     /\ ds_h2t' = ds_h2t
           ELSE /\ Len(ds_h2t'["mmio"][target]) = Len(ds_h2t["mmio"][target]) + 1
                /\ LET fwd == ds_h2t'["mmio"][target][Len(ds_h2t'["mmio"][target])]
                   IN /\ fwd.type = got.type
                      /\ fwd.addr = got.addr
                      /\ fwd.len_dw = got.len_dw
                      /\ fwd.tag = got.tag
                /\ \A i \in Vppbs \ {target} : ds_h2t'["mmio"][i] = ds_h2t["mmio"][i]
                /\ us_t2h' = us_t2h]_vars

\* A two-DWORD read of the first address beyond the top of vPPB 0's window
\* was just answered with a zero-fill completion.
C4_Witness ==
    /\ last.op = "mmio_h2t" /\ last.out = "zero"
    /\ IsBound(0)
    /\ us_t2h["mmio"] # <<>>
    /\ us_t2h["mmio"][Len(us_t2h["mmio"])].data_len = 8

\* Completions on the upstream CXL.io target_to_host queues.
UpstreamCompletions ==
    {p \in SeqToSet(us_t2h["cfg"]) \cup SeqToSet(us_t2h["mmio"]) : IsCompletion(p)}

C6_ReqIdRewrite ==
    /\ \A c \in {"cfg", "mmio"}, i \in Vppbs :
          \A p \in SeqToSet(ds_h2t[c][i]) : p.req_id = vcs_id
    /\ \A p \in UpstreamCompletions : p.req_id = 0

\* A VCS with a non-zero id has just forwarded a completion upstream.
C6_Witness ==
    /\ vcs_id # 0
    /\ last.op = "io_t2h" /\ last.out = "fwd"
    /\ \E p \in UpstreamCompletions : p.h.req_id # 0

\* ------------------------------------------------------------ CxlMemRouter
\* bi_id values a device puts in its S2M BISnp.
BiIds == {0, 2}

\* Values of a one-bit control field.
Bit == {0, 1}

\* CxlMemRouter's constructor arguments bi_enable_override_for_test and
\* bi_forward_override_for_test: both default to None, and no caller passes
\* them.
bi_enable_override_for_test == None
bi_forward_override_for_test == None

\* The bi_enable / bi_forward the target_to_host loop of vPPB i acts on.
bi_enable(i) ==
    IF bi_enable_override_for_test = None
    THEN bi_decoder[i].bi_enable ELSE bi_enable_override_for_test
bi_forward(i) ==
    IF bi_forward_override_for_test = None
    THEN bi_decoder[i].bi_forward ELSE bi_forward_override_for_test

\* A (1,0) branch that forwards without asking the upstream HDM decoder.
BISnpOutcome_no_capability_check(enable, forward, capable) ==
    IF enable = forward THEN "drop"
    ELSE IF enable = 0 /\ forward = 1 THEN "pass"
    ELSE IF enable = 1 /\ forward = 0 THEN "stamp"
    ELSE "none"

\* What the loop does with an S2M BISnp: the if / elif chain of the
\* target_to_host loop.  "none" is the fall-through of the chain.
BISnpOutcome(enable, forward, capable) ==
    IF enable = forward THEN "drop"
    ELSE IF enable = 0 /\ forward = 1 THEN "pass"
    ELSE IF enable = 1 /\ forward = 0
         THEN IF capable THEN "stamp" ELSE "drop"
    ELSE "none"

\* The device behind bound vPPB i sends a CXL.mem packet towards the host.
DeviceSendMem ==
    /\ InFlight < MaxInFlight
    /\ \E i \in Vppbs :
          /\ IsBound(i)
          /\ \E packet \in {[type |-> "S2MBISnp", bi_id |-> b, h |-> b] : b \in BiIds}
                           \cup {[type |-> "S2MNDR", bi_id |-> 0, h |-> 0]} :
                /\ ds_t2h' = [ds_t2h EXCEPT !["mem"][i] = Append(@, packet)]
                /\ last' = [op |-> "device_send", out |-> "mem", kind |-> packet.type,
                            port |-> i]
    /\ UNCHANGED <<ovars, vcs_id, dvars, cvars, bvars, us_h2t, us_t2h, ds_h2t, tvars>>

\* The host programs the BI decoder control register of vPPB i.
HostWriteBiControl ==
    /\ \E i \in Vppbs, e \in Bit, f \in Bit :
          /\ bi_decoder[i] # [bi_enable |-> e, bi_forward |-> f]
          /\ bi_decoder' = [bi_decoder EXCEPT ![i] = [bi_enable |-> e, bi_forward |-> f]]
    /\ last' = [op |-> "write_bi", out |-> "", kind |-> "", port |-> None]
    /\ UNCHANGED <<ovars, vcs_id, cvars, hdm_bi_capable, cache_id_decoder, bvars, qvars, tvars>>

\* One iteration of CxlMemRouter._process_target_to_host_packets for vPPB i.
CxlMemRouter_process_target_to_host_packets(i) ==
    /\ t2h_tasks["mem"][i] > 0
    /\ ds_t2h["mem"][i] # <<>>
    /\ LET got == Head(ds_t2h["mem"][i])
           bi_id == get_secondary_bus_number(i)
           outcome == IF got = NonePkt THEN "exit"
                      ELSE IF got.type = "S2MBISnp"
                      THEN BISnpOutcome(bi_enable(i), bi_forward(i), hdm_bi_capable)
                      ELSE "pass"
       IN /\ ds_t2h' = [ds_t2h EXCEPT !["mem"][i] = Tail(@)]
          /\ t2h_tasks' = IF outcome = "exit"
                          THEN [t2h_tasks EXCEPT !["mem"][i] = @ - 1]
                          ELSE t2h_tasks
          /\ us_t2h' = CASE outcome = "pass" ->
                              [us_t2h EXCEPT !["mem"] = Append(@, got)]
                         [] outcome = "stamp" ->
                              [us_t2h EXCEPT !["mem"] =
                                  Append(@, [got EXCEPT !.bi_id = bi_id])]
                         [] OTHER -> us_t2h
          /\ last' = IF outcome = "exit" THEN last
                      ELSE [op |-> "mem_t2h", out |-> outcome, kind |-> got.type,
                            port |-> i]
    /\ UNCHANGED <<ovars, vcs_id, dvars, cvars, bvars, us_h2t, ds_h2t, h2t_task, router_fifos>>

\* ---------------------------------------------- specification: CXL.mem BI
InitMem ==
    /\ vcs_id \in VcsIds
    /\ bind_slots \in [Vppbs -> {InitSlot} \cup {BoundSlot(i) : i \in Vppbs}]
    /\ \A i \in Vppbs : bind_slots[i] \in {InitSlot, BoundSlot(i)}
    /\ proc_state = [p \in ProcIds |->
                        IF \E i \in Vppbs : bind_slots[i].processor = p
                        THEN "running" ELSE "unused"]
    /\ us_h2t = EmptyQueues
    /\ us_t2h = EmptyQueues
    /\ ds_h2t = EmptyDsQueues
    /\ ds_t2h = EmptyDsQueues
    /\ h2t_task = [c \in Classes |-> TRUE]
    /\ t2h_tasks = [c \in Classes |-> [i \in Vppbs |-> 1]]
    /\ router_fifos = [c \in Classes |-> [i \in Vppbs |-> get_upstream_connection(i)]]
    /\ call = IdleCall(0)
    /\ hist = NoHist
    /\ bi_decoder \in [Vppbs -> [bi_enable : Bit, bi_forward : Bit]]
    /\ hdm_bi_capable \in BOOLEAN
    /\ cache_id_decoder = [i \in Vppbs |-> ResetCacheIdControl]
    /\ last = [op |-> "init", out |-> "", kind |-> "", port |-> None]
    /\ cxl_mem_packet = Unbound
    /\ mem_target_port = UnboundPort
    /\ OthersIdle

NextMem ==
    \/ DeviceSendMem
    \/ HostWriteBiControl
    \/ \E i \in Vppbs : CxlMemRouter_process_target_to_host_packets(i)
    \/ HostRecv("mem")

SpecMem == InitMem /\ [][NextMem]_vars

\* ----------------------------------------------------- claims: CXL.mem BI
\* The step takes a packet from vPPB i's target_to_host queue of class c.
TakesFromTarget(c, i) == Len(ds_t2h'[c][i]) < Len(ds_t2h[c][i])

\* C2: for every S2M BISnp the CxlMemRouter takes from a downstream vPPB whose
\* BI decoder control is (bi_enable, bi_forward): (0,0) and (1,1) drop it;
\* (0,1) puts it on the upstream queue with bi_id unchanged; (1,0) puts it on
\* the upstream queue with bi_id replaced by the vPPB's Secondary Bus Number
\* when the upstream HDM decoder is BI-capable, and drops it otherwise.
C2_BISnpPolicy ==
    [][\A i \in Vppbs :
        (TakesFromTarget("mem", i) /\ Head(ds_t2h["mem"][i]).type = "S2MBISnp") =>
            LET got == Head(ds_t2h["mem"][i])
                e == bi_decoder[i].bi_enable
                f == bi_decoder[i].bi_forward
            IN CASE e = f -> us_t2h' = us_t2h
                 [] e = 0 /\ f = 1 ->
                      us_t2h' = [us_t2h EXCEPT !["mem"] = Append(@, got)]
                 [] e = 1 /\ f = 0 ->
                      IF hdm_bi_capable
                      THEN us_t2h' = [us_t2h EXCEPT !["mem"] =
                              Append(@, [got EXCEPT
                                            !.bi_id = get_secondary_bus_number(i)])]
                      ELSE us_t2h' = us_t2h]_vars

\* vPPB 0 (Secondary Bus Number 1) with control (1,0) and a BI-capable
\* upstream HDM decoder has just had a BISnp with another bi_id stamped.
C2_Witness ==
    /\ last.op = "mem_t2h" /\ last.out = "stamp" /\ last.port = 0
    /\ bi_decoder[0] = [bi_enable |-> 1, bi_forward |-> 0]
    /\ hdm_bi_capable
    /\ us_t2h["mem"] # <<>>
    /\ LET p == us_t2h["mem"][Len(us_t2h["mem"])]
       IN p.bi_id = 1 /\ p.h # 1

\* ---------------------------------------------------------- CxlCacheRouter
\* cache_id values a device puts in its D2H requests, and local_cache_id
\* values the host programs in a Cache ID decoder.
CacheIds == {0, 3}
LocalCacheIds == {1, 2}

\* CxlCacheD2HReqPacket.set_cache_id(cache_id)
set_cache_id(packet, cache_id) == [packet EXCEPT !.cache_id = cache_id]

\* The device behind bound vPPB i sends a CXL.cache packet towards the host.
DeviceSendCache ==
    /\ InFlight < MaxInFlight
    /\ \E i \in Vppbs :
          /\ IsBound(i)
          /\ \E packet \in {[type |-> "D2HReq", cache_id |-> b, h |-> b] : b \in CacheIds}
                           \cup {[type |-> "D2HRsp", cache_id |-> 0, h |-> 0]} :
                /\ ds_t2h' = [ds_t2h EXCEPT !["cache"][i] = Append(@, packet)]
                /\ last' = [op |-> "device_send", out |-> "cache", kind |-> packet.type,
                            port |-> i]
    /\ UNCHANGED <<ovars, vcs_id, dvars, cvars, bvars, us_h2t, us_t2h, ds_h2t, tvars>>

\* The host programs the Cache ID decoder control register of vPPB i.
HostWriteCacheIdControl ==
    /\ \E i \in Vppbs, a \in Bit, f \in Bit, id \in LocalCacheIds :
          LET ctl == [assign_cache_id |-> a, forward_cache_id |-> f,
                      local_cache_id |-> id]
          IN /\ cache_id_decoder[i] # ctl
             /\ cache_id_decoder' = [cache_id_decoder EXCEPT ![i] = ctl]
    /\ last' = [op |-> "write_cache_id", out |-> "", kind |-> "", port |-> None]
    /\ UNCHANGED <<ovars, vcs_id, cvars, bi_decoder, hdm_bi_capable, bvars, qvars, tvars>>

\* One iteration of CxlCacheRouter._process_target_to_host_packets for vPPB
\* i.  Every branch of the (assign, fwd) chain falls through to the put.
CxlCacheRouter_process_target_to_host_packets(i) ==
    /\ t2h_tasks["cache"][i] > 0
    /\ ds_t2h["cache"][i] # <<>>
    /\ LET got == Head(ds_t2h["cache"][i])
           ctl == cache_id_decoder[i]
           assign == ctl.assign_cache_id
           fwd == ctl.forward_cache_id
           error == got # NonePkt /\ got.type = "D2HReq" /\ assign = 1 /\ fwd = 1
           packet == IF got # NonePkt /\ got.type = "D2HReq" /\ assign = 1 /\ fwd = 0
                     THEN set_cache_id(got, ctl.local_cache_id)
                     ELSE got
       IN /\ ds_t2h' = [ds_t2h EXCEPT !["cache"][i] = Tail(@)]
          /\ IF got = NonePkt
             THEN /\ t2h_tasks' = [t2h_tasks EXCEPT !["cache"][i] = @ - 1]
                  /\ UNCHANGED us_t2h
                  /\ UNCHANGED last
             ELSE /\ us_t2h' = [us_t2h EXCEPT !["cache"] = Append(@, packet)]
                  /\ UNCHANGED t2h_tasks
                  /\ last' = [op |-> "cache_t2h",
                              out |-> IF error THEN "error_fwd" ELSE "fwd",
                              kind |-> got.type, port |-> i]
    /\ UNCHANGED <<ovars, vcs_id, dvars, cvars, bvars, us_h2t, ds_h2t, h2t_task, router_fifos>>

\* --------------------------------------------- specification: CXL.cache D2H
InitCache ==
    /\ vcs_id \in VcsIds
    /\ bind_slots \in [Vppbs -> {InitSlot} \cup {BoundSlot(i) : i \in Vppbs}]
    /\ \A i \in Vppbs : bind_slots[i] \in {InitSlot, BoundSlot(i)}
    /\ proc_state = [p \in ProcIds |->
                        IF \E i \in Vppbs : bind_slots[i].processor = p
                        THEN "running" ELSE "unused"]
    /\ us_h2t = EmptyQueues
    /\ us_t2h = EmptyQueues
    /\ ds_h2t = EmptyDsQueues
    /\ ds_t2h = EmptyDsQueues
    /\ h2t_task = [c \in Classes |-> TRUE]
    /\ t2h_tasks = [c \in Classes |-> [i \in Vppbs |-> 1]]
    /\ router_fifos = [c \in Classes |-> [i \in Vppbs |-> get_upstream_connection(i)]]
    /\ call = IdleCall(0)
    /\ hist = NoHist
    /\ bi_decoder = [i \in Vppbs |-> ResetBiControl]
    /\ hdm_bi_capable = TRUE
    /\ cache_id_decoder = [i \in Vppbs |-> ResetCacheIdControl]
    /\ last = [op |-> "init", out |-> "", kind |-> "", port |-> None]
    /\ cxl_mem_packet = Unbound
    /\ mem_target_port = UnboundPort
    /\ OthersIdle

NextCache ==
    \/ DeviceSendCache
    \/ HostWriteCacheIdControl
    \/ \E i \in Vppbs : CxlCacheRouter_process_target_to_host_packets(i)
    \/ HostRecv("cache")

SpecCache == InitCache /\ [][NextCache]_vars

\* -------------------------------------------------- claims: CXL.cache D2H
\* C3: for every D2H request the CxlCacheRouter takes from a downstream vPPB
\* whose Cache ID decoder control is (assign_cache_id, forward_cache_id):
\* (0,0) drops it, nothing is put upstream; (0,1) puts it upstream with
\* cache_id unchanged; (1,0) puts it upstream with cache_id set to the
\* decoder's local_cache_id; (1,1) is an invalid setting, reported as an error.
C3_D2HReqPolicy ==
    [][\A i \in Vppbs :
        (TakesFromTarget("cache", i) /\ Head(ds_t2h["cache"][i]).type = "D2HReq") =>
            LET got == Head(ds_t2h["cache"][i])
                ctl == cache_id_decoder[i]
                a == ctl.assign_cache_id
                f == ctl.forward_cache_id
            IN CASE a = 0 /\ f = 0 -> us_t2h' = us_t2h
                 [] a = 0 /\ f = 1 ->
                      us_t2h' = [us_t2h EXCEPT !["cache"] = Append(@, got)]
                 [] a = 1 /\ f = 0 ->
                      us_t2h' = [us_t2h EXCEPT !["cache"] =
                          Append(@, [got EXCEPT !.cache_id = ctl.local_cache_id])]
                 [] a = 1 /\ f = 1 -> last'.out = "error_fwd"]_vars

\* What the code does: the three other settings behave as C3 says, and a
\* D2H request under (0,0) is put upstream unchanged.
C3_D2HReqAsBuilt ==
    [][\A i \in Vppbs :
        (TakesFromTarget("cache", i) /\ Head(ds_t2h["cache"][i]).type = "D2HReq") =>
            LET got == Head(ds_t2h["cache"][i])
                ctl == cache_id_decoder[i]
                a == ctl.assign_cache_id
                f == ctl.forward_cache_id
            IN /\ (a = 1 /\ f = 0) =>
                      us_t2h' = [us_t2h EXCEPT !["cache"] =
                          Append(@, [got EXCEPT !.cache_id = ctl.local_cache_id])]
               /\ ~(a = 1 /\ f = 0) =>
                      us_t2h' = [us_t2h EXCEPT !["cache"] = Append(@, got)]
               /\ (a = 1 /\ f = 1) <=> last'.out = "error_fwd"]_vars

\* A D2H request from a vPPB whose control is (0,0) has just been put on the
\* upstream queue.
C3_Witness ==
    /\ last.op = "cache_t2h" /\ last.out = "fwd" /\ last.kind = "D2HReq"
    /\ \E i \in Vppbs :
          /\ last.port = i
          /\ cache_id_decoder[i].assign_cache_id = 0
          /\ cache_id_decoder[i].forward_cache_id = 0
    /\ us_t2h["cache"] # <<>>

\* ------------------------------------------------------ bind processors
\* RunnableComponent lifecycle of a bind processor: "unused" (not created),
\* "scheduled" (created, run() handed to the gatherer, not started yet),
\* "running", "stopping" (stop() called, forwarding loops draining), "stopped".

\* The event loop starts a scheduled run() task: the processor is running.
ProcessorRun(p) ==
    /\ proc_state[p] = "scheduled"
    /\ proc_state' = [proc_state EXCEPT ![p] = "running"]
    /\ UNCHANGED <<ovars, vcs_id, dvars, cvars, bind_slots, qvars, tvars, last>>

\* The forwarding loops of a stopping processor have exited: stop() returns.
ProcessorStopped(p) ==
    /\ proc_state[p] = "stopping"
    /\ proc_state' = [proc_state EXCEPT ![p] = "stopped"]
    /\ UNCHANGED <<ovars, vcs_id, dvars, cvars, bind_slots, qvars, tvars, last>>

\* What `await processor.stop()` does at its call: "raise" for a processor that
\* never ran ("Cannot stop when it is not running"), "wait" for a running one
\* (the caller resumes once it has stopped), "noop" for one that has already
\* stopped.  The await is a suspension point in each case that returns.
StopOutcome(p) ==
    CASE proc_state[p] \in {"unused", "scheduled"} -> "raise"
      [] proc_state[p] \in {"running", "stopping"} -> "wait"
      [] OTHER -> "noop"

\* The lifecycle state stop() leaves a processor in when it is called.
StateAfterStop(state) == IF state = "running" THEN "stopping" ELSE state

\* self._async_gatherer.add_task(self._dummy.run()): the first call schedules
\* the dummy; a later run() of it fails inside its own task.
AddDummyTask(ps) ==
    IF ps[DummyProc] = "unused" THEN [ps EXCEPT ![DummyProc] = "scheduled"] ELSE ps

\* The id of the next VppbPpbBindProcessor PortBinder creates.
NewProc == Min({p \in ProcIds : p > Cardinality(Vppbs) /\ proc_state[p] = "unused"})

\* ------------------------------------------------------------ PortBinder
\* Physical port types: port 0 is the USP.
IsDsp(port) == port \in Ports /\ port # 0

\* The physical port is attached to a vPPB whose status is BOUND.
PortIsBound(port) == \E j \in Vppbs : IsBound(j) /\ bind_slots[j].dsp = port

\* The routing state of vPPB v: its bind slot, the routers' queue references
\* for it, and the routing table's answers.
RoutingState(v) ==
    [slot |-> bind_slots[v],
     fifos |-> [c \in Classes |-> router_fifos[c][v]],
     cfg_targets |-> [b \in Buses |-> get_config_space_target_port(b * 256)],
     mmio_targets |-> [a \in MmioAddrs |-> get_mmio_target_port(a)]]

\* vPPB indices a caller passes: every slot, and one past the last.
VppbArgs == Vppbs \cup {Cardinality(Vppbs)}

\* A failing call that marks the slot it was given UNBOUND before it raises.
CallFails_marks_unbound(op, v, why) ==
    /\ call' = IdleCall(call.n + 1)
    /\ last' = [op |-> op, out |-> why, kind |-> "error", port |-> v]
    /\ bind_slots' = IF v \in Vppbs
                     THEN [bind_slots EXCEPT ![v].status = "UNBOUND"]
                     ELSE bind_slots
    /\ UNCHANGED hist

\* A call that fails: nothing but the dummy task is changed.
CallFails(op, v, why) ==
    /\ call' = IdleCall(call.n + 1)
    /\ last' = [op |-> op, out |-> why, kind |-> "error", port |-> v]
    /\ UNCHANGED <<bind_slots, hist>>

\* History when a call on vPPB v gets past its checks.
HistBegin(op, v) ==
    IF op = "unbind" /\ hist.phase = "bound" /\ hist.vppb = v
    THEN hist
    ELSE [NoHist EXCEPT !.unbound_once = hist.unbound_once]

\* A bind_vppb that attaches the DSP and schedules the processor but leaves
\* the slot's status as it was.
BindAttach_keeps_status(v, port, ps) ==
    /\ bind_slots' = [bind_slots EXCEPT ![v].processor = NewProc, ![v].dsp = port]
    /\ proc_state' = [ps EXCEPT ![NewProc] = "scheduled"]

\* A bind_vppb that marks the slot BOUND without attaching the DSP.
BindAttach_without_dsp(v, port, ps) ==
    /\ bind_slots' = [bind_slots EXCEPT ![v].status = "BOUND", ![v].processor = NewProc]
    /\ proc_state' = [ps EXCEPT ![NewProc] = "scheduled"]

\* bind_vppb, lines 72-80: attach the DSP, create and schedule the new
\* processor, mark the slot BOUND.
BindAttach(v, port, ps) ==
    /\ bind_slots' = [bind_slots EXCEPT ![v] =
                         [status |-> "BOUND", processor |-> NewProc, dsp |-> port]]
    /\ proc_state' = [ps EXCEPT ![NewProc] = "scheduled"]

\* CxlVirtualSwitch.bind_vppb(port, v) up to its first suspension point: the
\* port checks of the switch, then PortBinder.bind_vppb(dsp, v).
VcsBindBegin(v, port) ==
    /\ call.op = "idle"
    /\ call.n < MaxCalls
    /\ IF ~IsDsp(port)
       THEN CallFails("bind", v, "port_type") /\ UNCHANGED proc_state
       ELSE IF PortIsBound(port)
       THEN CallFails("bind", v, "port_bound") /\ UNCHANGED proc_state
       ELSE IF v \notin Vppbs
       THEN CallFails("bind", v, "out_of_bound")
            /\ proc_state' = AddDummyTask(proc_state)
       ELSE IF bind_slots[v].status = "BOUND"
       THEN CallFails("bind", v, "already_bound")
            /\ proc_state' = AddDummyTask(proc_state)
       ELSE LET old == bind_slots[v].processor
                started == [op |-> "bind", pc |-> "update", vppb |-> v, port |-> port,
                            k |-> 0, n |-> call.n + 1, snap |-> RoutingState(v)]
            IN IF old = None
               THEN /\ BindAttach(v, port, AddDummyTask(proc_state))
                    /\ call' = started
                    /\ hist' = HistBegin("bind", v)
                    /\ last' = [op |-> "bind", out |-> "attached", kind |-> "",
                                port |-> v]
               ELSE IF StopOutcome(old) = "raise"
               THEN CallFails("bind", v, "stop_failed")
                    /\ proc_state' = AddDummyTask(proc_state)
               ELSE /\ proc_state' = [AddDummyTask(proc_state) EXCEPT
                                         ![old] = StateAfterStop(proc_state[old])]
                    /\ call' = [started EXCEPT !.pc = "wait_stop"]
                    /\ hist' = HistBegin("bind", v)
                    /\ last' = [op |-> "bind", out |-> "stopping", kind |-> "",
                                port |-> v]
                    /\ UNCHANGED bind_slots
    /\ UNCHANGED <<ovars, vcs_id, dvars, qvars, tvars>>

\* PortBinder.bind_vppb resumes after `await bind_slot.processor.stop()`.
PortBinder_bind_vppb_resume ==
    /\ call.op = "bind" /\ call.pc = "wait_stop"
    /\ proc_state[bind_slots[call.vppb].processor] = "stopped"
    /\ BindAttach(call.vppb, call.port, proc_state)
    /\ call' = [call EXCEPT !.pc = "update"]
    /\ last' = [op |-> "bind", out |-> "attached", kind |-> "", port |-> call.vppb]
    /\ UNCHANGED <<ovars, vcs_id, dvars, hist, qvars, tvars>>

\* CxlVirtualSwitch.unbind_vppb(v) up to its first suspension point:
\* PortBinder.unbind_vppb(v).
VcsUnbindBegin(v) ==
    /\ call.op = "idle"
    /\ call.n < MaxCalls
    /\ IF v \notin Vppbs
       THEN CallFails("unbind", v, "out_of_bound")
            /\ proc_state' = AddDummyTask(proc_state)
       ELSE IF bind_slots[v].status = "UNBOUND"
       THEN CallFails("unbind", v, "already_unbound")
            /\ proc_state' = AddDummyTask(proc_state)
       ELSE LET old == bind_slots[v].processor
                started == [op |-> "unbind", pc |-> "update", vppb |-> v,
                            port |-> None, k |-> 0, n |-> call.n + 1,
                            snap |-> RoutingState(v)]
            IN IF old = None
               THEN /\ bind_slots' = [bind_slots EXCEPT ![v].status = "UNBOUND"]
                    /\ proc_state' = AddDummyTask(proc_state)
                    /\ call' = started
                    /\ hist' = HistBegin("unbind", v)
                    /\ last' = [op |-> "unbind", out |-> "detached", kind |-> "",
                                port |-> v]
               ELSE IF StopOutcome(old) = "raise"
               THEN CallFails("unbind", v, "stop_failed")
                    /\ proc_state' = AddDummyTask(proc_state)
               ELSE /\ proc_state' = [AddDummyTask(proc_state) EXCEPT
                                         ![old] = StateAfterStop(proc_state[old])]
                    /\ call' = [started EXCEPT !.pc = "wait_stop"]
                    /\ hist' = HistBegin("unbind", v)
                    /\ last' = [op |-> "unbind", out |-> "stopping", kind |-> "",
                                port |-> v]
                    /\ UNCHANGED bind_slots
    /\ UNCHANGED <<ovars, vcs_id, dvars, qvars, tvars>>

\* An unbind_vppb that goes on without awaiting the processor's stop().
PortBinder_unbind_vppb_resume_without_await ==
    /\ call.op = "unbind" /\ call.pc = "wait_stop"
    /\ bind_slots' = [bind_slots EXCEPT ![call.vppb].status = "UNBOUND"]
    /\ call' = [call EXCEPT !.pc = "update"]
    /\ last' = [op |-> "unbind", out |-> "detached", kind |-> "", port |-> call.vppb]
    /\ UNCHANGED <<ovars, vcs_id, dvars, hist, proc_state, qvars, tvars>>

\* An unbind_vppb that clears the slot's dsp and processor when it resumes.
PortBinder_unbind_vppb_resume_clears ==
    /\ call.op = "unbind" /\ call.pc = "wait_stop"
    /\ proc_state[bind_slots[call.vppb].processor] = "stopped"
    /\ bind_slots' = [bind_slots EXCEPT ![call.vppb] =
                         [status |-> "UNBOUND", processor |-> None, dsp |-> None]]
    /\ call' = [call EXCEPT !.pc = "update"]
    /\ last' = [op |-> "unbind", out |-> "detached", kind |-> "", port |-> call.vppb]
    /\ UNCHANGED <<ovars, vcs_id, dvars, hist, proc_state, qvars, tvars>>

\* PortBinder.unbind_vppb resumes after `await bind_slot.processor.stop()`:
\* the slot becomes UNBOUND and keeps its dsp and its processor.
PortBinder_unbind_vppb_resume ==
    /\ call.op = "unbind" /\ call.pc = "wait_stop"
    /\ proc_state[bind_slots[call.vppb].processor] = "stopped"
    /\ bind_slots' = [bind_slots EXCEPT ![call.vppb].status = "UNBOUND"]
    /\ call' = [call EXCEPT !.pc = "update"]
    /\ last' = [op |-> "unbind", out |-> "detached", kind |-> "", port |-> call.vppb]
    /\ UNCHANGED <<ovars, vcs_id, dvars, hist, proc_state, qvars, tvars>>

\* ---------------------------------------------------------- update_router
\* The order in which the switch updates its routers.
RouterOrder == <<"cfg", "mmio", "mem", "cache">>

\* CxlRouter._is_running: set by _run and never cleared; every router of a
\* running VCS has run.
is_running(c) == TRUE

\* History after a call on vPPB v has completed.
HistAfter(op, v) ==
    IF op = "bind"
    THEN [phase |-> "bound", vppb |-> v, port |-> call.port, snap |-> call.snap,
          unbound_once |-> hist.unbound_once]
    ELSE IF hist.phase = "bound" /\ hist.vppb = v
    THEN [hist EXCEPT !.phase = "unbound", !.unbound_once = @ \cup {v}]
    ELSE [NoHist EXCEPT !.unbound_once = hist.unbound_once \cup {v}]

\* An update_router that adds the new task without stopping the old one.
update_router_without_sentinel ==
    /\ call.pc = "update"
    /\ LET c == RouterOrder[call.k + 1]
           v == call.vppb
           finished == call.k + 1 = Len(RouterOrder)
       IN /\ router_fifos' = [router_fifos EXCEPT ![c][v] = get_upstream_connection(v)]
          /\ t2h_tasks' = [t2h_tasks EXCEPT ![c][v] = @ + 1]
          /\ call' = IF finished THEN IdleCall(call.n) ELSE [call EXCEPT !.k = @ + 1]
          /\ hist' = IF finished THEN HistAfter(call.op, v) ELSE hist
          /\ last' = IF finished
                      THEN [op |-> call.op, out |-> "ok", kind |-> "", port |-> v]
                      ELSE last
    /\ UNCHANGED <<ovars, vcs_id, dvars, bvars, us_h2t, us_t2h, ds_h2t, ds_t2h, h2t_task>>

\* update_router(vppb_index) of the next router in RouterOrder: stop_for_update
\* puts the sentinel on the queue the router holds for the vPPB, the reference
\* is set to the vPPB's queue again, and a new target_to_host task is added.
\* After the last router the bind / unbind call returns.
update_router ==
    /\ call.pc = "update"
    /\ LET c == RouterOrder[call.k + 1]
           v == call.vppb
           finished == call.k + 1 = Len(RouterOrder)
       IN /\ ds_t2h' = IF is_running(c)
                       THEN [ds_t2h EXCEPT ![c][router_fifos[c][v]] = Append(@, NonePkt)]
                       ELSE ds_t2h
          /\ router_fifos' = [router_fifos EXCEPT ![c][v] = get_upstream_connection(v)]
          /\ t2h_tasks' = IF is_running(c)
                          THEN [t2h_tasks EXCEPT ![c][v] = @ + 1]
                          ELSE t2h_tasks
          /\ call' = IF finished THEN IdleCall(call.n) ELSE [call EXCEPT !.k = @ + 1]
          /\ hist' = IF finished THEN HistAfter(call.op, v) ELSE hist
          /\ last' = IF finished
                      THEN [op |-> call.op, out |-> "ok", kind |-> "", port |-> v]
                      ELSE last
    /\ UNCHANGED <<ovars, vcs_id, dvars, bvars, us_h2t, us_t2h, ds_h2t, h2t_task>>

\* ------------------------------------------- specification: bind / unbind
\* A running VCS after construction: every vPPB is INIT or bound to its DSP
\* by a running processor; no call has been made.
Init ==
    /\ vcs_id = 0
    /\ bind_slots \in [Vppbs -> {InitSlot} \cup {BoundSlot(i) : i \in Vppbs}]
    /\ \A i \in Vppbs : bind_slots[i] \in {InitSlot, BoundSlot(i)}
    /\ proc_state = [p \in ProcIds |->
                        IF \E i \in Vppbs : bind_slots[i].processor = p
                        THEN "running" ELSE "unused"]
    /\ us_h2t = EmptyQueues
    /\ us_t2h = EmptyQueues
    /\ ds_h2t = EmptyDsQueues
    /\ ds_t2h = EmptyDsQueues
    /\ h2t_task = [c \in Classes |-> TRUE]
    /\ t2h_tasks = [c \in Classes |-> [i \in Vppbs |-> 1]]
    /\ router_fifos = [c \in Classes |-> [i \in Vppbs |-> get_upstream_connection(i)]]
    /\ call = IdleCall(0)
    /\ hist = NoHist
    /\ bi_decoder = [i \in Vppbs |-> ResetBiControl]
    /\ hdm_bi_capable = TRUE
    /\ cache_id_decoder = [i \in Vppbs |-> ResetCacheIdControl]
    /\ last = [op |-> "init", out |-> "", kind |-> "", port |-> None]
    /\ cxl_mem_packet = Unbound
    /\ mem_target_port = UnboundPort
    /\ OthersIdle

Next ==
    \/ \E v \in VppbArgs, port \in Ports : VcsBindBegin(v, port)
    \/ PortBinder_bind_vppb_resume
    \/ \E v \in VppbArgs : VcsUnbindBegin(v)
    \/ PortBinder_unbind_vppb_resume
    \/ update_router
    \/ \E p \in ProcIds : ProcessorRun(p)
    \/ \E p \in ProcIds : ProcessorStopped(p)
    \/ \E c \in {"cfg", "mmio"}, i \in Vppbs :
          IoRouter_process_target_to_host_packets(c, i)
    \/ \E i \in Vppbs : CxlMemRouter_process_target_to_host_packets(i)
    \/ \E i \in Vppbs : CxlCacheRouter_process_target_to_host_packets(i)

Spec == Init /\ [][Next]_vars

\* ------------------------------- specification: rebind under cfg traffic
\* The bind / unbind calls of Spec while the host writes configuration
\* registers (tag 5) and the targets answer.
NextRebind ==
    \/ \E v \in Vppbs, port \in Ports : VcsBindBegin(v, port)
    \/ PortBinder_bind_vppb_resume
    \/ \E v \in Vppbs : VcsUnbindBegin(v)
    \/ PortBinder_unbind_vppb_resume
    \/ update_router
    \/ \E p \in ProcIds : ProcessorRun(p)
    \/ \E p \in ProcIds : ProcessorStopped(p)
    \/ HostSendCfg({"CfgWr"}, {1}, {5})
    \/ ConfigSpaceRouter_process_host_to_target_packets
    \/ \E i \in Vppbs : IoRouter_process_target_to_host_packets("cfg", i)
    \/ \E i \in Vppbs : DeviceRespondIo("cfg", i)
    \/ HostRecv("cfg")

SpecRebind == Init /\ [][NextRebind]_vars

\* -------------------------------------------------- claims: bind / unbind
\* A running bind processor forwards vPPB v's traffic to and from a DSP.
Forwarding(v) ==
    /\ bind_slots[v].dsp # None
    /\ bind_slots[v].processor # None
    /\ proc_state[bind_slots[v].processor] = "running"

BindFails ==
    /\ call.op = "idle" /\ call'.n = call.n + 1
    /\ last'.op = "bind" /\ last'.kind = "error"
    /\ last'.port \in Vppbs

\* C8 as stated: whenever bind_vppb fails, the targeted vPPB's status
\* afterwards is UNBOUND (it is not BOUND).
C8_FailedBindLeavesUnbound ==
    [][BindFails => bind_slots'[last'.port].status # "BOUND"]_vars

\* C8 amended: whenever bind_vppb fails, every bind slot is exactly as it was
\* before the call (a slot that was BOUND stays BOUND, no slot becomes BOUND),
\* the error is raised to the caller and no call is left in progress; and a
\* bind_vppb on a BOUND vPPB always fails.
C8_FailedBindChangesNothing ==
    [][/\ BindFails => /\ bind_slots' = bind_slots
                       /\ call'.op = "idle"
                       /\ hist' = hist
                       /\ \A p \in ProcIds \ {DummyProc} : proc_state'[p] = proc_state[p]
       /\ (/\ call.op = "idle" /\ call'.n = call.n + 1
           /\ last'.op = "bind" /\ last'.port \in Vppbs
           /\ IsBound(last'.port)) => last'.kind = "error"]_vars

\* A bind_vppb on a BOUND vPPB has just failed and left it BOUND.
C8_Witness ==
    /\ last.op = "bind" /\ last.kind = "error" /\ last.out = "already_bound"
    /\ last.port \in Vppbs
    /\ IsBound(last.port)

\* C9 as stated: bind_vppb(v, p) run to completion and then unbind_vppb(v)
\* run to completion leave the routing state of v (the routers' queue
\* references and target tables, and the bind slot of v) identical to the
\* snapshot taken before the bind.
C9_BindUnbindRestores ==
    hist.phase = "unbound" => RoutingState(hist.vppb) = hist.snap

\* C9 amended: bind_vppb(v, p) and then unbind_vppb(v), both run to
\* completion, leave the routers' queue references for v and the routing
\* tables' targets as in the snapshot taken before the bind; the bind slot of
\* v is not restored: its status is UNBOUND, and it keeps the DSP p and the
\* (stopped) processor of the bind.
C9_BindUnbindKeepsSlot ==
    hist.phase = "unbound" =>
        LET now == RoutingState(hist.vppb)
        IN /\ now.fifos = hist.snap.fifos
           /\ now.cfg_targets = hist.snap.cfg_targets
           /\ now.mmio_targets = hist.snap.mmio_targets
           /\ now.slot.status = "UNBOUND"
           /\ now.slot.dsp = hist.port
           /\ now.slot.processor # None
           /\ now.slot.processor # hist.snap.slot.processor
           /\ proc_state[now.slot.processor] = "stopped"
           /\ now.slot # hist.snap.slot

\* bind_vppb and then unbind_vppb have completed on a vPPB that was INIT.
C9_Witness ==
    /\ hist.phase = "unbound"
    /\ hist.snap.slot = InitSlot
    /\ call.op = "idle"
    /\ last.op = "unbind" /\ last.out = "ok"

\* The vPPB whose bus window holds the destination of a configuration
\* request, bound or not; None when there is none.
BusOwner(p) ==
    LET bus == tlptoh16(p.dest_id) \div 256
        hits == {i \in Vppbs : /\ get_secondary_bus_number(i) <= bus
                               /\ bus <= get_subordinate_bus_number(i)}
    IN IF hits = {} THEN None ELSE Min(hits)

\* C10: unbind followed by re-bind of the same vPPB succeeds: after
\* unbind_vppb(v) a configuration request to a bus behind v is answered with
\* a UR completion; a following bind_vppb of v to a free DSP does not fail and
\* makes v BOUND again; and configuration requests to that bus are then
\* delivered to the vPPB again.
C10_UnbindRebind ==
    [][/\ TakesFromHost("cfg") =>
            LET got == Head(us_h2t["cfg"])
                v == BusOwner(got)
            IN /\ (v # None /\ bind_slots[v].status = "UNBOUND") =>
                     /\ Len(us_t2h'["cfg"]) = Len(us_t2h["cfg"]) + 1
                     /\ us_t2h'["cfg"][Len(us_t2h'["cfg"])].status = CPL_STATUS_UR
                     /\ ds_h2t' = ds_h2t
               /\ (v # None /\ v \in hist.unbound_once /\ IsBound(v)) =>
                     /\ ds_h2t'["cfg"][v] = Append(ds_h2t["cfg"][v], RewriteReqId(got))
                     /\ us_t2h' = us_t2h
       /\ (/\ call.op = "idle" /\ call'.n = call.n + 1
           /\ last'.op = "bind" /\ last'.port \in Vppbs
           /\ bind_slots[last'.port].status = "UNBOUND"
           /\ last'.kind = "error") => last'.out \in {"port_type", "port_bound"}
       /\ (call.op = "bind" /\ call'.op = "idle") =>
              bind_slots'[call.vppb].status = "BOUND"]_vars

\* What the code does for C10: all of it, but the completion that answers
\* the request to the unbound vPPB has status SC.
C10_UnbindRebindAsBuilt ==
    [][/\ TakesFromHost("cfg") =>
            LET got == Head(us_h2t["cfg"])
                v == BusOwner(got)
            IN /\ (v # None /\ bind_slots[v].status = "UNBOUND") =>
                     /\ Len(us_t2h'["cfg"]) = Len(us_t2h["cfg"]) + 1
                     /\ us_t2h'["cfg"][Len(us_t2h'["cfg"])].status = CPL_STATUS_SC
                     /\ us_t2h'["cfg"][Len(us_t2h'["cfg"])].tag = got.tag
                     /\ ds_h2t' = ds_h2t
               /\ (v # None /\ v \in hist.unbound_once /\ IsBound(v)) =>
                     /\ ds_h2t'["cfg"][v] = Append(ds_h2t["cfg"][v], RewriteReqId(got))
                     /\ us_t2h' = us_t2h
       /\ (/\ call.op = "idle" /\ call'.n = call.n + 1
           /\ last'.op = "bind" /\ last'.port \in Vppbs
           /\ bind_slots[last'.port].status = "UNBOUND"
           /\ last'.kind = "error") => last'.out \in {"port_type", "port_bound"}
       /\ (call.op = "bind" /\ call'.op = "idle") =>
              bind_slots'[call.vppb].status = "BOUND"]_vars

\* vPPB 0 was unbound and bound again, and a CfgWr to its bus has just been
\* put on its host_to_target queue.
C10_Witness ==
    /\ 0 \in hist.unbound_once
    /\ IsBound(0)
    /\ last.op = "cfg_h2t" /\ last.out = "fwd" /\ last.port = 0
    /\ ds_h2t["cfg"][0] # <<>>

\* A CfgWr to the bus behind the unbound vPPB 0 has just been answered.
C10_WitnessUnbound ==
    /\ 0 \in hist.unbound_once
    /\ bind_slots[0].status = "UNBOUND"
    /\ last.op = "cfg_h2t" /\ last.out = "ur"
    /\ us_t2h["cfg"] # <<>>
    /\ us_t2h["cfg"][Len(us_t2h["cfg"])].h.tag = 5

\* ------------------------------------------- switch connection: handshake
svars == <<vcs_id, bvars, qvars, tvars, cvars, dvars, cxl_mem_packet,
           mem_target_port, nvars, xvars>>

\* SidebandConnectionRequestPacket.create(port_index)
SidebandConnectionRequestPacket_create(port_index) ==
    [payload_type |-> "SIDEBAND", type |-> CONNECTION_REQUEST, port |-> port_index]

\* BaseSidebandPacket.create(type)
BaseSidebandPacket_create(type) == [payload_type |-> "SIDEBAND", type |-> type]

is_sideband(p) == p.payload_type = "SIDEBAND"
is_connection_request(p) == p.type = CONNECTION_REQUEST
is_connection_accept(p) == p.type = CONNECTION_ACCEPT
is_connection_reject(p) == p.type = CONNECTION_REJECT

\* SwitchConnectionClient._connect: the first packet the client writes.
ConnectRequest(cl) ==
    IF cl.injected_error = NoInjectedError
    THEN SidebandConnectionRequestPacket_create(cl.port_index)
    ELSE IF cl.injected_error = "NON_SIDEBAND"
    THEN [payload_type |-> "CXL_IO", type |-> "CfgRd", dest_id |-> 0]
    ELSE BaseSidebandPacket_create(CONNECTION_REJECT)

\* SwitchConnectionClient._connect: the error it raises for a response, ""
\* when it returns the connection.
ConnectError(response) ==
    IF ~is_sideband(response) THEN "Received unexpected packet"
    ELSE IF is_connection_reject(response) THEN "Connection rejected"
    ELSE IF ~is_connection_accept(response) THEN "Received unexpected sideband packet"
    ELSE ""

FreeSocks == {s \in Socks : socks[s].srv = "free"}

\* _connect up to its wait for the response: open a connection to the
\* listener, write the request, drain.
Connect(c, cl) ==
    /\ FreeSocks # {}
    /\ LET s == Min(FreeSocks)
       IN /\ socks' = [socks EXCEPT ![s] = [FreeSock EXCEPT
                          !.owner = c, !.req = ConnectRequest(cl),
                          !.srv = "wait_request"]]
          /\ clients' = [clients EXCEPT ![c] = [cl EXCEPT
                          !.pc = "wait_response", !.sock = s,
                          !.attempts = @ + 1]]
          /\ last' = [op |-> "connect", out |-> "", kind |-> cl.injected_error,
                      port |-> cl.port_index, sock |-> s]

\* A client is constructed (port_index, retry), possibly told to inject an
\* error, and run: SwitchConnectionClient._run up to the first _connect.
ClientRun(c) ==
    /\ clients[c].pc = "new"
    /\ \E pi \in PortIndexes, retry \in BOOLEAN, inj \in InjectedErrors \cup {NoInjectedError} :
          Connect(c, [clients[c] EXCEPT !.port_index = pi, !.retry = retry,
                                        !.injected_error = inj])
    /\ UNCHANGED <<lvars, svars, ports, events>>

\* _run with retry: after asyncio.sleep(1) the loop calls _connect again.
ClientRetry(c) ==
    /\ clients[c].pc = "sleep"
    /\ Connect(c, clients[c])
    /\ UNCHANGED <<lvars, svars, ports, events>>

\* The state of the client when its _connect raised error: without retry
\* _run raises it; with retry _run sleeps and tries again until the 120 s
\* have passed (here: after MaxAttempts attempts), and then raises
\* "Timed out waiting for CXL-Switch".
ClientAfterError(cl, error) ==
    IF ~cl.retry
    THEN [cl EXCEPT !.pc = "failed", !.connect_error = error, !.error = error]
    ELSE IF cl.attempts >= MaxAttempts
    THEN [cl EXCEPT !.pc = "failed", !.connect_error = error,
                    !.error = "Timed out waiting for CXL-Switch"]
    ELSE [cl EXCEPT !.pc = "sleep", !.connect_error = error]

\* The client reads the response (_connect from line 73), and on success
\* _run starts its packet processor and reports ready.
ClientRecv(c) ==
    /\ clients[c].pc = "wait_response"
    /\ socks[clients[c].sock].resp # <<>>
    /\ LET s == clients[c].sock
           response == Head(socks[s].resp)
           error == ConnectError(response)
       IN /\ socks' = [socks EXCEPT ![s].resp = Tail(@)]
          /\ clients' = [clients EXCEPT ![c] =
                IF error = ""
                THEN [@ EXCEPT !.pc = "running", !.connect_error = ""]
                ELSE ClientAfterError(@, error)]
          /\ last' = [op |-> "client_recv", out |-> error, kind |-> "",
                      port |-> clients[c].port_index, sock |-> s]
    /\ UNCHANGED <<lvars, svars, ports, events>>

\* A running client stops: its packet processor stops and the transport is
\* closed, which the switch's end reads as EOF.
ClientStop(c) ==
    /\ clients[c].pc = "running"
    /\ clients' = [clients EXCEPT ![c].pc = "stopped"]
    /\ socks' = [socks EXCEPT ![clients[c].sock].eof = TRUE]
    /\ last' = [op |-> "client_stop", out |-> "", kind |-> "",
                port |-> clients[c].port_index, sock |-> clients[c].sock]
    /\ UNCHANGED <<lvars, svars, ports, events>>

\* The manager's verdict on the first packet of a socket: "" to accept, else
\* why it rejects.
AcceptsOutOfBound(pkt) ==
    IF ~is_sideband(pkt) THEN "not_sideband"
    ELSE IF ~is_connection_request(pkt) THEN "not_connection_request"
    ELSE IF pkt.port < PortCount /\ ports[pkt.port].connected THEN "already_connected"
    ELSE ""

AcceptsConnectedPort(pkt) ==
    IF ~is_sideband(pkt) THEN "not_sideband"
    ELSE IF ~is_connection_request(pkt) THEN "not_connection_request"
    ELSE IF pkt.port >= PortCount THEN "out_of_bound"
    ELSE ""

AcceptsAnySideband(pkt) ==
    IF ~is_sideband(pkt) THEN "not_sideband"
    ELSE IF pkt.type = CONNECTION_REQUEST /\ pkt.port >= PortCount THEN "out_of_bound"
    ELSE IF pkt.type = CONNECTION_REQUEST /\ ports[pkt.port].connected
    THEN "already_connected"
    ELSE ""

RejectReason(pkt) ==
    IF ~is_sideband(pkt) THEN "not_sideband"
    ELSE IF ~is_connection_request(pkt) THEN "not_connection_request"
    ELSE IF pkt.port >= PortCount THEN "out_of_bound"
    ELSE IF ports[pkt.port].connected THEN "already_connected"
    ELSE ""

\* The port an accepted packet is for.
AcceptedPort(pkt) ==
    IF "port" \in DOMAIN pkt /\ pkt.port \in SwitchPorts THEN pkt.port ELSE 0

\* The manager marks port p connected.
MarkAllConnected(pt, p) == [q \in DOMAIN pt |-> [pt[q] EXCEPT !.connected = TRUE]]

MarkConnected(pt, p) == [pt EXCEPT ![p].connected = TRUE]

\* The manager reads the first packet of a new socket and answers it: with
\* CONNECTION_REJECT, closing the socket, or with CONNECTION_ACCEPT, marking
\* the port connected.
HandleRequest(s) ==
    /\ socks[s].srv = "wait_request"
    /\ LET pkt == socks[s].req
           why == RejectReason(pkt)
           p == AcceptedPort(pkt)
       IN /\ IF why = ""
             THEN /\ socks' = [socks EXCEPT ![s] = [@ EXCEPT !.req = None,
                        !.resp = Append(@, BaseSidebandPacket_create(CONNECTION_ACCEPT)),
                        !.srv = "accepted", !.port = p]]
                  /\ ports' = MarkConnected(ports, p)
             ELSE /\ socks' = [socks EXCEPT ![s] = [@ EXCEPT !.req = None,
                        !.resp = Append(@, BaseSidebandPacket_create(CONNECTION_REJECT)),
                        !.srv = "closed", !.why = why]]
                  /\ UNCHANGED ports
          /\ last' = [op |-> "handle_request",
                      out |-> IF why = "" THEN "ACCEPT" ELSE "REJECT",
                      kind |-> why,
                      port |-> IF "port" \in DOMAIN pkt THEN pkt.port ELSE None,
                      sock |-> s]
    /\ UNCHANGED <<lvars, svars, clients, events>>

\* After the accept the manager spawns the packet processor of the port on
\* the socket and emits PortUpdateEvent{port_id, connected=true}.
EmitTwice(evs, p, connected) ==
    Append(Append(evs, [port_id |-> p, connected |-> connected]),
           [port_id |-> p, connected |-> connected])

Emit(evs, p, connected) == Append(evs, [port_id |-> p, connected |-> connected])

StartProcessor(s) ==
    /\ socks[s].srv = "accepted"
    /\ LET p == socks[s].port
       IN /\ ports' = [ports EXCEPT ![p].packet_processor = s]
          /\ events' = Emit(events, p, TRUE)
          /\ socks' = [socks EXCEPT ![s] = [@ EXCEPT !.srv = "processing",
                          !.ups = Len(SelectSeq(events', LAMBDA e : e.connected))
                                  - Len(SelectSeq(events, LAMBDA e : e.connected))]]
          /\ last' = [op |-> "start_processor", out |-> "", kind |-> "",
                      port |-> p, sock |-> s]
    /\ UNCHANGED <<lvars, svars, clients>>

\* The packet processor of a port exits when its transport reaches EOF: the
\* manager marks the port disconnected and emits
\* PortUpdateEvent{port_id, connected=false}.
KeepsPortConnected(port) == port

ReleasedPort(port) == DisconnectedPort

ProcessorExit(s) ==
    /\ socks[s].srv = "processing"
    /\ socks[s].eof
    /\ LET p == socks[s].port
       IN /\ ports' = [ports EXCEPT ![p] = ReleasedPort(@)]
          /\ events' = Emit(events, p, FALSE)
          /\ socks' = [socks EXCEPT ![s].srv = "closed"]
          /\ last' = [op |-> "processor_exit", out |-> "", kind |-> "",
                      port |-> p, sock |-> s]
    /\ UNCHANGED <<lvars, svars, clients>>

\* A virtual switch that takes no step.
SwitchQuiet ==
    /\ vcs_id = 0
    /\ bind_slots = [i \in Vppbs |-> InitSlot]
    /\ proc_state = [p \in ProcIds |-> "unused"]
    /\ us_h2t = EmptyQueues
    /\ us_t2h = EmptyQueues
    /\ ds_h2t = EmptyDsQueues
    /\ ds_t2h = EmptyDsQueues
    /\ h2t_task = [c \in Classes |-> TRUE]
    /\ t2h_tasks = [c \in Classes |-> [i \in Vppbs |-> 1]]
    /\ router_fifos = [c \in Classes |-> [i \in Vppbs |-> get_upstream_connection(i)]]
    /\ call = IdleCall(0)
    /\ hist = NoHist
    /\ bi_decoder = [i \in Vppbs |-> ResetBiControl]
    /\ hdm_bi_capable = TRUE
    /\ cache_id_decoder = [i \in Vppbs |-> ResetCacheIdControl]
    /\ last = [op |-> "init", out |-> "", kind |-> "", port |-> None, sock |-> None]
    /\ cxl_mem_packet = Unbound
    /\ mem_target_port = UnboundPort

\* A switch whose connection manager is running and listening.
InitConn == SwitchQuiet /\ OthersIdle

NextConn ==
    \/ \E c \in Clients : ClientRun(c)
    \/ \E c \in Clients : ClientRetry(c)
    \/ \E c \in Clients : ClientRecv(c)
    \/ \E c \in Clients : ClientStop(c)
    \/ \E s \in Socks : HandleRequest(s)
    \/ \E s \in Socks : StartProcessor(s)
    \/ \E s \in Socks : ProcessorExit(s)

SpecConn == InitConn /\ [][NextConn]_vars

\* ------------------------------------------ claims: switch connection
\* The manager's handler of socket s reads the first packet in this step.
Handles(s) == socks[s].srv = "wait_request" /\ socks'[s].srv # "wait_request"

\* The first packet of socket s is a CONNECTION_REQUEST.
IsConnectionRequest(s) ==
    is_sideband(socks[s].req) /\ is_connection_request(socks[s].req)

\* In this step socket s is answered with a packet of the given type.
Answered(s, type) ==
    socks'[s].resp = Append(socks[s].resp, BaseSidebandPacket_create(type))

\* In this step socket s is rejected: CONNECTION_REJECT, that socket closed,
\* every other socket and every port as before.
Rejected(s) ==
    /\ Answered(s, CONNECTION_REJECT)
    /\ socks'[s].srv = "closed"
    /\ ports' = ports
    /\ \A t \in Socks \ {s} : socks'[t] = socks[t]

\* Client c, which declared port_index as built, reads the response to its
\* request in this step.
ReadsResponse(c) ==
    /\ clients[c].pc = "wait_response"
    /\ clients'[c].pc # "wait_response"
    /\ clients[c].injected_error = NoInjectedError

\* C11 (as stated): a CONNECTION_REQUEST whose port_index is at least the
\* number of configured ports is answered with CONNECTION_REJECT, no port
\* becomes connected, and the client's run fails with "Connection rejected".
C11_OutOfBoundRunFails ==
    [][/\ \A s \in Socks :
            (Handles(s) /\ IsConnectionRequest(s) /\ socks[s].req.port >= PortCount)
               => Rejected(s)
       /\ \A c \in Clients :
            (ReadsResponse(c) /\ clients[c].port_index >= PortCount)
               => /\ clients'[c].pc = "failed"
                  /\ clients'[c].error = "Connection rejected"]_vars

\* C11 (amended): such a request is answered with CONNECTION_REJECT and no
\* port becomes connected; the client's _connect fails with "Connection
\* rejected"; its run fails with that error when the client was built with
\* retry off, and with retry on it tries again until it fails with "Timed
\* out waiting for CXL-Switch".  The client never reports ready.
C11_OutOfBoundConnectFails ==
    [][/\ \A s \in Socks :
            (Handles(s) /\ IsConnectionRequest(s) /\ socks[s].req.port >= PortCount)
               => Rejected(s)
       /\ \A c \in Clients :
            (ReadsResponse(c) /\ clients[c].port_index >= PortCount)
               => /\ clients'[c].connect_error = "Connection rejected"
                  /\ IF clients[c].retry
                     THEN \/ clients'[c].pc = "sleep"
                          \/ /\ clients'[c].pc = "failed"
                             /\ clients'[c].error = "Timed out waiting for CXL-Switch"
                     ELSE /\ clients'[c].pc = "failed"
                          /\ clients'[c].error = "Connection rejected"]_vars

C11_Witness ==
    \E c \in Clients :
        /\ clients[c].port_index >= PortCount
        /\ clients[c].injected_error = NoInjectedError
        /\ ~clients[c].retry
        /\ clients[c].pc = "failed"
        /\ clients[c].error = "Connection rejected"
        /\ socks[clients[c].sock].why = "out_of_bound"
        /\ \A p \in SwitchPorts : ~ports[p].connected

\* The sockets whose connection is bound to port p.
BoundIn(sk, p) == {s \in Socks : sk[s].srv \in {"accepted", "processing"}
                                /\ sk[s].port = p}

BoundTo(p) == BoundIn(socks, p)

C13_ProtocolViolation ==
    [][\A s \in Socks :
          (Handles(s) /\ ~IsConnectionRequest(s))
             => /\ Rejected(s)
                /\ \A t \in Socks \ {s} :
                      socks[t].srv = "wait_request" => ENABLED HandleRequest(t)]_vars

C13_Witness ==
    /\ last.op = "handle_request"
    /\ last.out = "ACCEPT"
    /\ \E s \in Socks : /\ socks[s].srv = "closed"
                        /\ socks[s].why \in {"not_sideband", "not_connection_request"}

\* C14: the connected flag of a port changes only from false to true in a
\* step that sends CONNECTION_ACCEPT for this port, and only from true to
\* false in a step where the connection bound to it has reached EOF; a
\* rejected handshake changes no flag.
C14_FlagMonotone ==
    [][/\ \A p \in SwitchPorts :
            (ports'[p].connected # ports[p].connected)
               => IF ports'[p].connected
                  THEN \E s \in Socks : /\ Handles(s)
                                        /\ Answered(s, CONNECTION_ACCEPT)
                                        /\ socks'[s].port = p
                  ELSE \E s \in BoundTo(p) : /\ socks[s].eof
                                             /\ socks'[s].srv = "closed"
       /\ \A s \in Socks :
            (Handles(s) /\ Answered(s, CONNECTION_REJECT))
               => \A p \in SwitchPorts : ports'[p].connected = ports[p].connected
      ]_vars

C14_Witness ==
    \E p \in SwitchPorts :
        /\ ports[p].connected
        /\ \E k \in 1..Len(events) : events[k] = [port_id |-> p, connected |-> FALSE]
        /\ \E s \in Socks : socks[s].why # ""

\* The last PortUpdateEvent of port p says connected=false.
LastEventIsDown(p) ==
    \E k \in 1..Len(events) :
        /\ events[k] = [port_id |-> p, connected |-> FALSE]
        /\ \A j \in (k + 1)..Len(events) : events[j].port_id # p

\* C15: when the packet processor of a connected port exits on EOF, a
\* PortUpdateEvent with connected=false is emitted for the port, and the next
\* CONNECTION_REQUEST for the port is accepted.
C15_ExitReleasesPort ==
    [][/\ \A s \in Socks :
            (socks[s].srv = "processing" /\ socks'[s].srv # "processing")
               => /\ events' = Append(events, [port_id |-> socks[s].port,
                                               connected |-> FALSE])
                  /\ ~ports'[socks[s].port].connected
       /\ \A s \in Socks :
            (/\ Handles(s)
             /\ IsConnectionRequest(s)
             /\ socks[s].req.port < PortCount
             /\ LastEventIsDown(socks[s].req.port)
             /\ BoundTo(socks[s].req.port) = {})
               => /\ Answered(s, CONNECTION_ACCEPT)
                  /\ BoundIn(socks', socks[s].req.port) = {s}]_vars

C15_Witness ==
    /\ last.op = "handle_request"
    /\ last.out = "ACCEPT"
    /\ LastEventIsDown(last.port)
    /\ ports[last.port].connected

\* The connected=true events emitted so far.
UpEvents == SelectSeq(events, LAMBDA e : e.connected)

\* The handshakes accepted so far whose event is due.
Announced == {s \in Socks : socks[s].port # None /\ socks[s].srv # "accepted"}

\* C16: a valid CONNECTION_REQUEST for an in-range, disconnected port is
\* answered with CONNECTION_ACCEPT; every accepted handshake emits exactly
\* one PortUpdateEvent{port_id, connected=true}, when the port is already
\* marked connected; a client reports ready only on reading the
\* CONNECTION_ACCEPT.
C16_AcceptAndAnnounce ==
    [][/\ \A s \in Socks :
            (/\ Handles(s)
             /\ IsConnectionRequest(s)
             /\ socks[s].req.port < PortCount
             /\ ~ports[socks[s].req.port].connected)
               => /\ Answered(s, CONNECTION_ACCEPT)
                  /\ ports'[socks[s].req.port].connected
       /\ \A s \in Socks :
            (socks[s].srv = "accepted" /\ socks'[s].srv # "accepted")
               => /\ events' = Append(events, [port_id |-> socks[s].port,
                                               connected |-> TRUE])
                  /\ ports[socks[s].port].connected
       /\ \A s \in Socks :
            socks'[s].ups = IF s \in Announced' THEN 1 ELSE 0
       /\ Len(UpEvents') = Cardinality(Announced')
       /\ \A c \in Clients :
            (clients[c].pc # "running" /\ clients'[c].pc = "running")
               => /\ socks[clients[c].sock].resp
                        = <<BaseSidebandPacket_create(CONNECTION_ACCEPT)>>
                  /\ socks'[clients[c].sock].resp = <<>>
                  /\ socks[clients[c].sock].port = clients[c].port_index]_vars

C16_Witness ==
    \E c \in Clients :
        /\ clients[c].pc = "running"
        /\ socks[clients[c].sock].srv = "processing"
        /\ socks[clients[c].sock].ups = 1
        /\ events # <<>>
        /\ events[Len(events)] = [port_id |-> clients[c].port_index,
                                  connected |-> TRUE]

\* ------------------------------------------ RunnableComponent: run, stop
StopFailed == -1

\* What run() does by the status it finds: it starts a component that has
\* not run, and raises otherwise.
RunCallOutcome_restarts(state) == "start"

RunCallOutcome(state) ==
    IF state = "NEW" THEN "start" ELSE "Cannot run when it is not stopped"

\* What stop() does by the status it finds: it raises for a component that
\* is not running yet, stops a running one, waits for one that is stopping,
\* and does nothing for one that has stopped.
StopCallOutcome_raises_when_stopped(state) ==
    CASE state = "RUNNING" -> "stop"
      [] state = "STOPPING" -> "wait"
      [] OTHER -> "Cannot stop when it is not running"

StopCallOutcome(state) ==
    CASE state \in {"NEW", "STARTING"} -> "Cannot stop when it is not running"
      [] state = "RUNNING" -> "stop"
      [] state = "STOPPING" -> "wait"
      [] OTHER -> "noop"

\* The message a call raises, "" when it raises nothing.
Raised(outcome) ==
    IF outcome \in {"start", "stop", "wait", "noop"} THEN "" ELSE outcome

\* The components that exist: the composite and its children.
Built == {"parent"} \cup Children(composite)

\* create_task(child.run()) for every child of a group.
StartChildren(st, group) ==
    [c \in Components |->
        IF c \in group /\ RunCallOutcome(st[c]) = "start" THEN "STARTING" ELSE st[c]]

\* create_task(child.stop()) for every child of a group.
StopChildren(st, group) ==
    [c \in Components |->
        IF c \in group /\ StopCallOutcome(st[c]) = "stop" THEN "STOPPING" ELSE st[c]]

LifeLast(op, c, outcome) ==
    [op |-> op, out |-> Raised(outcome), kind |-> comp_status[c], port |-> None,
     comp |-> c, prev |-> last.out]

\* run() is called on component c.  The composite's _run creates the run
\* tasks of its first group of children before its first await.
Run(c) ==
    /\ c \in Built
    /\ comp_status[c] # "STOPPED"
    /\ LET outcome == RunCallOutcome(comp_status[c])
       IN /\ IF outcome # "start"
             THEN UNCHANGED <<comp_status, stage>>
             ELSE IF c = "parent"
             THEN /\ comp_status' = StartChildren(
                        [comp_status EXCEPT !["parent"] = "STARTING"],
                        RunGroups(composite)[1].start)
                  /\ stage' = 1
             ELSE /\ comp_status' = [comp_status EXCEPT ![c] = "STARTING"]
                  /\ UNCHANGED stage
          /\ last' = LifeLast("run", c, outcome)
    /\ UNCHANGED <<mvars, svars, composite, ready>>

\* A child's _run reaches _change_status_to_running: it signals ready.
ChildReady(c) ==
    /\ c \in Children(composite)
    /\ comp_status[c] = "STARTING"
    /\ comp_status' = [comp_status EXCEPT ![c] = "RUNNING"]
    /\ ready' = [ready EXCEPT ![c] = TRUE]
    /\ last' = LifeLast("ready", c, "")
    /\ UNCHANGED <<mvars, svars, composite, stage>>

\* The composite's _run goes on once every wait_for_ready() of the current
\* group has returned: it starts the next group, or after the last one
\* calls _change_status_to_running.
ParentAdvance ==
    /\ comp_status["parent"] = "STARTING"
    /\ stage \in 1..Len(RunGroups(composite))
    /\ \A c \in RunGroups(composite)[stage].wait : ready[c]
    /\ IF stage < Len(RunGroups(composite))
       THEN /\ comp_status' = StartChildren(comp_status,
                                  RunGroups(composite)[stage + 1].start)
            /\ stage' = stage + 1
            /\ UNCHANGED ready
       ELSE /\ comp_status' = [comp_status EXCEPT !["parent"] = "RUNNING"]
            /\ ready' = [ready EXCEPT !["parent"] = TRUE]
            /\ UNCHANGED stage
    /\ last' = LifeLast("advance", "parent", "")
    /\ UNCHANGED <<mvars, svars, composite>>

\* stop() is called on component c.  The composite's _stop creates the stop
\* tasks of its children and gathers them; a child's stop() that raises makes
\* the gather, and with it the composite's stop(), fail.
Stop(c) ==
    /\ c \in Built
    /\ LET outcome == StopCallOutcome(comp_status[c])
           failing == {d \in StopGroup(composite) :
                          Raised(StopCallOutcome(comp_status[d])) # ""}
       IN /\ IF outcome # "stop"
             THEN UNCHANGED <<comp_status, stage>>
             ELSE IF c = "parent"
             THEN /\ comp_status' = StopChildren(
                        [comp_status EXCEPT !["parent"] = "STOPPING"],
                        StopGroup(composite))
                  /\ stage' = IF failing = {} THEN stage ELSE StopFailed
             ELSE /\ comp_status' = [comp_status EXCEPT ![c] = "STOPPING"]
                  /\ UNCHANGED stage
          /\ last' = LifeLast("stop", c, outcome)
    /\ UNCHANGED <<mvars, svars, composite, ready>>

\* The tasks of a stopping child have completed: its stop() returns.
ChildStopped(c) ==
    /\ c \in Children(composite)
    /\ comp_status[c] = "STOPPING"
    /\ comp_status' = [comp_status EXCEPT ![c] = "STOPPED"]
    /\ last' = LifeLast("stopped", c, "")
    /\ UNCHANGED <<mvars, svars, composite, ready, stage>>

\* Every stop() the composite's _stop gathered has returned.
ParentStopped ==
    /\ comp_status["parent"] = "STOPPING"
    /\ stage # StopFailed
    /\ \A c \in StopGroup(composite) : comp_status[c] = "STOPPED"
    /\ comp_status' = [comp_status EXCEPT !["parent"] = "STOPPED"]
    /\ last' = LifeLast("stopped", "parent", "")
    /\ UNCHANGED <<mvars, svars, composite, ready, stage>>

\* One composite of any kind, just constructed.
InitLife ==
    /\ SwitchQuiet
    /\ ManagerIdle
    /\ RestIdle
    /\ composite \in Composites
    /\ comp_status = [c \in Components |-> "NEW"]
    /\ ready = [c \in Components |-> FALSE]
    /\ stage = 0

NextLife ==
    \/ \E c \in Components : Run(c)
    \/ \E c \in Components : ChildReady(c)
    \/ ParentAdvance
    \/ \E c \in Components : Stop(c)
    \/ \E c \in Components : ChildStopped(c)
    \/ ParentStopped

SpecLife == InitLife /\ [][NextLife]_vars

\* -------------------------------------------- claims: component lifecycle
\* In this step run() or stop() is called on component c.
Calls(op, c) == last'.op = op /\ last'.comp = c

\* Nothing of the components' state changes in this step.
LifeUnchanged ==
    /\ comp_status' = comp_status
    /\ ready' = ready
    /\ stage' = stage
    /\ composite' = composite

\* C17: run() on a component that is already running fails with "Cannot run
\* when it is not stopped" and leaves it running; stop() on a component that
\* was never started fails with "Cannot stop when it is not running" and
\* leaves its state unchanged.
C17_LifecycleErrors ==
    [][\A c \in Components :
          /\ (Calls("run", c) /\ comp_status[c] = "RUNNING")
                => /\ last'.out = "Cannot run when it is not stopped"
                   /\ comp_status'[c] = "RUNNING"
                   /\ LifeUnchanged
          /\ (Calls("stop", c) /\ comp_status[c] = "NEW")
                => /\ last'.out = "Cannot stop when it is not running"
                   /\ LifeUnchanged]_vars

C17_Witness ==
    /\ last.op = "run"
    /\ last.kind = "RUNNING"
    /\ last.out = "Cannot run when it is not stopped"
    /\ comp_status[last.comp] = "RUNNING"
    /\ last.prev = "Cannot stop when it is not running"
    /\ \E c \in Built : comp_status[c] = "NEW"

C19_ReadyImpliesChildrenReady ==
    (comp_status["parent"] = "RUNNING" \/ ready["parent"])
        => \A c \in Children(composite) : ready[c]

\* The children whose readiness the composite's _run awaits.
Awaited(cmp) == UNION {RunGroups(cmp)[k].wait : k \in 1..Len(RunGroups(cmp))}

\* C19 (as built): a composite that is RUNNING or has signalled ready has
\* seen the ready signal of every child it awaits, which is every child
\* except the CPU of a CxlHost.
C19_AwaitedChildrenReady ==
    /\ (comp_status["parent"] = "RUNNING" \/ ready["parent"])
          => \A c \in Awaited(composite) : ready[c]
    /\ Children(composite) \ Awaited(composite)
          = IF composite.name = "CxlHost" THEN {"cpu"} ELSE {}

C19_Witness ==
    /\ composite.name = "CxlHost"
    /\ comp_status["parent"] = "RUNNING"
    /\ ready["parent"]
    /\ comp_status["cpu"] = "STARTING"
    /\ ~ready["cpu"]
    /\ \A c \in Awaited(composite) : ready[c]

\* ------------------------------------------- CxlMemRouter: host to target
\* HDM window of vPPB i: [HdmBase(i), HdmBase(i) + HdmSize); addresses are
\* multiples of 0x40.
HdmSize == 64
HdmBase(i) == 64 * (i + 1)

\* RoutingTable.get_cxl_mem_target_port(addr): the bound vPPB whose HDM
\* window holds the address, None when there is none.
get_cxl_mem_target_port(addr) ==
    LET hits == {i \in Vppbs : /\ IsBound(i)
                               /\ HdmBase(i) <= addr
                               /\ addr < HdmBase(i) + HdmSize}
    IN IF hits = {} THEN None ELSE Min(hits)

\* CXL.mem addresses the host uses: below every window, the base of each
\* window, and the first address beyond the last window.
MemAddrs == {0} \cup {HdmBase(i) : i \in Vppbs}
                \cup {HdmBase(Cardinality(Vppbs) - 1) + HdmSize}

\* The M2S BIRsp branch: the first vPPB whose secondary bus number equals
\* bi_id, None when there is none.
BIRspTarget(b) ==
    LET hits == {i \in Vppbs : get_secondary_bus_number(i) = b}
    IN IF hits = {} THEN None ELSE Min(hits)

\* The local target_port after the branch of the packet's message class: it
\* is None at the start of every iteration; an M2S Req or RwD assigns the
\* routing table's answer, an M2S BIRsp the first matching vPPB if there is
\* one.
MemTargetPort(packet) ==
    IF packet.type \in {"M2SReq", "M2SRwD"} THEN get_cxl_mem_target_port(packet.addr)
    ELSE IF packet.type = "M2SBIRsp" THEN BIRspTarget(packet.bi_id)
    ELSE None

\* What one iteration does with a packet, given its local target_port and
\* whether the local cxl_mem_packet is assigned: an unexpected packet raises;
\* a target of None is logged with cxl_mem_packet.get_pretty_string(), which
\* raises when cxl_mem_packet is unassigned, and the packet is dropped; a
\* target beyond the bind slots raises; otherwise the packet is forwarded.
MemH2TOutcome_raises_on_miss(type, target_port, assigned) ==
    IF type \notin {"M2SReq", "M2SRwD", "M2SBIRsp"} THEN "raise_unexpected"
    ELSE IF target_port = None THEN "raise_unbound"
    ELSE IF target_port >= Cardinality(Vppbs) THEN "raise_out_of_bound"
    ELSE "fwd"

MemH2TOutcome(type, target_port, assigned) ==
    IF type \notin {"M2SReq", "M2SRwD", "M2SBIRsp"} THEN "raise_unexpected"
    ELSE IF target_port = None
    THEN IF assigned THEN "drop" ELSE "raise_unbound"
    ELSE IF target_port >= Cardinality(Vppbs) THEN "raise_out_of_bound"
    ELSE "fwd"

\* The record of a step, with the outcome of the router's previous
\* host-to-target iteration.
MemLast(op, out, kind, port) ==
    [op |-> op, out |-> out, kind |-> kind, port |-> port,
     prev |-> IF last.op = "mem_h2t" THEN last.out
              ELSE IF "prev" \in DOMAIN last THEN last.prev ELSE ""]

\* The host sends a CXL.mem packet: an M2S Req or RwD to an address, an M2S
\* BIRsp with a bi_id, or a packet of a class the loop does not expect.
HostSendMem ==
    /\ InFlight < MaxInFlight
    /\ \E packet \in {[type |-> t, addr |-> a, bi_id |-> 0] :
                          t \in {"M2SReq", "M2SRwD"}, a \in MemAddrs}
                     \cup {[type |-> "M2SBIRsp", addr |-> 0, bi_id |-> b] : b \in BiIds}
                     \cup {[type |-> "S2MNDR", addr |-> 0, bi_id |-> 0]} :
          /\ us_h2t' = [us_h2t EXCEPT !["mem"] = Append(@, packet)]
          /\ last' = MemLast("host_send", "mem", packet.type, None)
    /\ UNCHANGED <<ovars, vcs_id, dvars, cvars, bvars, us_t2h, ds_h2t, ds_t2h, tvars>>

\* The target behind bound vPPB i takes a CXL.mem packet.
DeviceRecvMem(i) ==
    /\ ds_h2t["mem"][i] # <<>>
    /\ IsBound(i)
    /\ proc_state[bind_slots[i].processor] = "running"
    /\ ds_h2t' = [ds_h2t EXCEPT !["mem"][i] = Tail(@)]
    /\ last' = MemLast("device", "mem", Head(ds_h2t["mem"][i]).type, i)
    /\ UNCHANGED <<ovars, vcs_id, dvars, cvars, bvars, us_h2t, us_t2h, ds_t2h, tvars>>

\* CxlRouter._stop of the CxlMemRouter: None on the upstream host_to_target
\* queue and on every downstream target_to_host queue.
CxlMemRouter_stop ==
    /\ "mem" \notin stop_called
    /\ stop_called' = stop_called \cup {"mem"}
    /\ us_h2t' = [us_h2t EXCEPT !["mem"] = Put(@, NonePkt)]
    /\ ds_t2h' = [ds_t2h EXCEPT !["mem"] =
                     [i \in Vppbs |-> Put(ds_t2h["mem"][i], NonePkt)]]
    /\ last' = MemLast("stop", "mem", "", None)
    /\ UNCHANGED <<mvars, lvars, xvars, loop_time, cxl_mem_packet, mem_target_port, cache_route_table,
                   sent, putters, arrived, vcs_id, dvars, cvars, bvars, us_t2h, ds_h2t,
                   tvars>>

\* One iteration of CxlMemRouter._process_host_to_target_packets.
CxlMemRouter_process_host_to_target_packets ==
    /\ h2t_task["mem"]
    /\ us_h2t["mem"] # <<>>
    /\ LET packet == Head(us_h2t["mem"])
           target_port == IF packet = NonePkt THEN mem_target_port
                          ELSE MemTargetPort(packet)
           local == IF packet.type \in {"M2SReq", "M2SRwD"}
                    THEN packet ELSE cxl_mem_packet
           outcome == IF packet = NonePkt THEN "exit"
                      ELSE MemH2TOutcome(packet.type, target_port,
                                         local # Unbound)
       IN /\ us_h2t' = [us_h2t EXCEPT !["mem"] = Tail(@)]
          /\ cxl_mem_packet' = IF packet = NonePkt THEN cxl_mem_packet ELSE local
          /\ mem_target_port' = target_port
          /\ h2t_task' = IF outcome \in {"fwd", "drop"} THEN h2t_task
                         ELSE [h2t_task EXCEPT !["mem"] = FALSE]
          /\ ds_h2t' = IF outcome = "fwd"
                       THEN [ds_h2t EXCEPT
                               !["mem"][get_upstream_connection(target_port)] =
                                   Put(@, packet)]
                       ELSE ds_h2t
          /\ last' = MemLast("mem_h2t", outcome, packet.type, target_port)
    /\ UNCHANGED <<mvars, lvars, xvars, nvars, vcs_id, dvars, cvars, bvars, us_t2h, ds_t2h,
                   t2h_tasks, router_fifos>>

NextMemH2T ==
    \/ HostSendMem
    \/ CxlMemRouter_process_host_to_target_packets
    \/ \E i \in Vppbs : DeviceRecvMem(i)
    \/ CxlMemRouter_stop

\* The switch as built, its BI decoders at their reset value: nothing here
\* programs them and the host-to-target loop does not read them.
InitMemH2T ==
    /\ InitMem
    /\ bi_decoder = [i \in Vppbs |-> [bi_enable |-> 0, bi_forward |-> 0]]

SpecMemH2T == InitMemH2T /\ [][NextMemH2T]_vars

\* ------------------------------------ claims: CxlMemRouter host to target
\* C20: every M2S Req and M2S RwD the router takes from the upstream cxl_mem
\* host_to_target queue is either put, unmodified, on the cxl_mem
\* host_to_target queue of exactly the vPPB its address resolves to, or,
\* when it resolves to none, dropped with nothing sent in either direction;
\* the router's loop is alive afterwards.
C20_M2SForwardOrDrop ==
    [][(/\ TakesFromHost("mem")
        /\ Head(us_h2t["mem"]).type \in {"M2SReq", "M2SRwD"})
          => LET packet == Head(us_h2t["mem"])
                 target == get_cxl_mem_target_port(packet.addr)
             IN /\ IF target = None
                   THEN ds_h2t' = ds_h2t
                   ELSE ds_h2t' = [ds_h2t EXCEPT !["mem"][target] = Append(@, packet)]
                /\ us_t2h' = us_t2h
                /\ ds_t2h' = ds_t2h
                /\ h2t_task'["mem"]]_vars

C20_Witness ==
    /\ last.op = "mem_h2t"
    /\ last.kind \in {"M2SReq", "M2SRwD"}
    /\ last.out = "fwd"
    /\ last.prev = "drop"
    /\ h2t_task["mem"]
    /\ ds_h2t["mem"][last.port] # <<>>

\* ------------------------------------------ CxlCacheRouter: host to target
\* Port numbers a Cache Route Table entry can hold: a vPPB index, an index
\* beyond the bind slots, or None.
RoutePorts == Vppbs \cup {Cardinality(Vppbs), None}

\* The Cache Route Tables: an entry for some of the cache ids.
CacheRouteTables ==
    UNION {[ids -> RoutePorts] : ids \in SUBSET CacheIds}

\* get_cache_route_table_options() has the field target<cache_id>_options.
HasRouteEntry(cache_id) == cache_id \in DOMAIN cache_route_table

\* What one iteration does with a packet: an unexpected packet raises; a
\* cache_id without an entry, or with an entry whose port_number is None,
\* is dropped; a port beyond the bind slots raises; otherwise the packet is
\* forwarded.
CacheH2TOutcome_raises_on_miss(type, has_entry, target_port) ==
    IF type \notin {"H2DReq", "H2DRsp", "H2DData"} THEN "raise_unexpected"
    ELSE IF ~has_entry THEN "raise_unroutable"
    ELSE IF target_port = None THEN "drop"
    ELSE IF target_port >= Cardinality(Vppbs) THEN "raise_out_of_bound"
    ELSE "fwd"

CacheH2TOutcome(type, has_entry, target_port) ==
    IF type \notin {"H2DReq", "H2DRsp", "H2DData"} THEN "raise_unexpected"
    ELSE IF ~has_entry THEN "drop"
    ELSE IF target_port = None THEN "drop"
    ELSE IF target_port >= Cardinality(Vppbs) THEN "raise_out_of_bound"
    ELSE "fwd"

\* The record of a step, with the outcome of the given loop's previous
\* iteration.
StepLast(loop, op, out, kind, port) ==
    [op |-> op, out |-> out, kind |-> kind, port |-> port,
     prev |-> IF last.op = loop THEN last.out
              ELSE IF "prev" \in DOMAIN last THEN last.prev ELSE ""]

\* The host sends a CXL.cache packet: an H2D Req, Rsp or Data with a
\* cache_id, or a packet of a class the loop does not expect.
HostSendCache ==
    /\ InFlight < MaxInFlight
    /\ \E packet \in {[type |-> t, cache_id |-> b] :
                          t \in {"H2DReq", "H2DRsp", "H2DData"}, b \in CacheIds}
                     \cup {[type |-> "D2HReq", cache_id |-> 0]} :
          /\ us_h2t' = [us_h2t EXCEPT !["cache"] = Append(@, packet)]
          /\ last' = StepLast("cache_h2t", "host_send", "cache", packet.type, None)
    /\ UNCHANGED <<ovars, vcs_id, dvars, cvars, bvars, us_t2h, ds_h2t, ds_t2h, tvars>>

\* The target behind bound vPPB i takes a CXL.cache packet.
DeviceRecvCache(i) ==
    /\ ds_h2t["cache"][i] # <<>>
    /\ IsBound(i)
    /\ proc_state[bind_slots[i].processor] = "running"
    /\ ds_h2t' = [ds_h2t EXCEPT !["cache"][i] = Tail(@)]
    /\ last' = StepLast("cache_h2t", "device", "cache",
                        Head(ds_h2t["cache"][i]).type, i)
    /\ UNCHANGED <<ovars, vcs_id, dvars, cvars, bvars, us_h2t, us_t2h, ds_t2h, tvars>>

\* CxlRouter._stop of the CxlCacheRouter.
CxlCacheRouter_stop ==
    /\ "cache" \notin stop_called
    /\ stop_called' = stop_called \cup {"cache"}
    /\ us_h2t' = [us_h2t EXCEPT !["cache"] = Put(@, NonePkt)]
    /\ ds_t2h' = [ds_t2h EXCEPT !["cache"] =
                     [i \in Vppbs |-> Put(ds_t2h["cache"][i], NonePkt)]]
    /\ last' = StepLast("cache_h2t", "stop", "cache", "", None)
    /\ UNCHANGED <<mvars, lvars, xvars, loop_time, cxl_mem_packet, mem_target_port, cache_route_table,
                   sent, putters, arrived, vcs_id, dvars, cvars, bvars, us_t2h, ds_h2t,
                   tvars>>

\* One iteration of CxlCacheRouter._process_host_to_target_packets.
CxlCacheRouter_process_host_to_target_packets ==
    /\ h2t_task["cache"]
    /\ us_h2t["cache"] # <<>>
    /\ LET packet == Head(us_h2t["cache"])
           has_entry == packet # NonePkt /\ HasRouteEntry(packet.cache_id)
           target_port == IF has_entry THEN cache_route_table[packet.cache_id]
                          ELSE None
           outcome == IF packet = NonePkt THEN "exit"
                      ELSE CacheH2TOutcome(packet.type, has_entry, target_port)
       IN /\ us_h2t' = [us_h2t EXCEPT !["cache"] = Tail(@)]
          /\ h2t_task' = IF outcome \in {"fwd", "drop"} THEN h2t_task
                         ELSE [h2t_task EXCEPT !["cache"] = FALSE]
          /\ ds_h2t' = IF outcome = "fwd"
                       THEN [ds_h2t EXCEPT
                               !["cache"][get_upstream_connection(target_port)] =
                                   Put(@, packet)]
                       ELSE ds_h2t
          /\ last' = StepLast("cache_h2t", "cache_h2t", outcome, packet.type,
                              target_port)
    /\ UNCHANGED <<ovars, vcs_id, dvars, cvars, bvars, us_t2h, ds_t2h,
                   t2h_tasks, router_fifos>>

\* A running VCS: every vPPB is either still INIT or bound to its DSP.
SwitchRunning ==
    /\ vcs_id \in VcsIds
    /\ bind_slots \in [Vppbs -> {InitSlot} \cup {BoundSlot(i) : i \in Vppbs}]
    /\ \A i \in Vppbs : bind_slots[i] \in {InitSlot, BoundSlot(i)}
    /\ proc_state = [p \in ProcIds |->
                        IF \E i \in Vppbs : bind_slots[i].processor = p
                        THEN "running" ELSE "unused"]
    /\ us_h2t = EmptyQueues
    /\ us_t2h = EmptyQueues
    /\ ds_h2t = EmptyDsQueues
    /\ ds_t2h = EmptyDsQueues
    /\ h2t_task = [c \in Classes |-> TRUE]
    /\ t2h_tasks = [c \in Classes |-> [i \in Vppbs |-> 1]]
    /\ router_fifos = [c \in Classes |-> [i \in Vppbs |-> get_upstream_connection(i)]]
    /\ call = IdleCall(0)
    /\ hist = NoHist
    /\ bi_decoder = [i \in Vppbs |-> ResetBiControl]
    /\ hdm_bi_capable = TRUE
    /\ cache_id_decoder = [i \in Vppbs |-> ResetCacheIdControl]
    /\ last = [op |-> "init", out |-> "", kind |-> "", port |-> None]
    /\ cxl_mem_packet = Unbound
    /\ mem_target_port = UnboundPort

\* The switch as built, with any Cache Route Table.
InitCacheH2T ==
    /\ SwitchRunning
    /\ ManagerIdle
    /\ LifeIdle
    /\ HistoryIdle
    /\ PuttersIdle
    /\ ClockIdle
    /\ CodecIdle
    /\ CciIdle
    /\ cache_route_table \in CacheRouteTables

NextCacheH2T ==
    \/ HostSendCache
    \/ CxlCacheRouter_process_host_to_target_packets
    \/ \E i \in Vppbs : DeviceRecvCache(i)
    \/ CxlCacheRouter_stop

SpecCacheH2T == InitCacheH2T /\ [][NextCacheH2T]_vars

MaxSent == 3

WithSeq(r, n) == [f \in (DOMAIN r) \cup {"seq"} |-> IF f = "seq" THEN n ELSE r[f]]

\* The requests of class c the host sends here: one for each vPPB, which is
\* forwarded when that vPPB is bound.
OrderedRequests(c) ==
    CASE c = "cfg" -> {CxlIoCfgReqPacket_create("CfgRd", get_secondary_bus_number(i) * 256,
                                                1, 0) : i \in Vppbs}
      [] c = "mmio" -> {CxlIoMemReqPacket_create("MRd", MmioBase(i), 1, 1, 0) : i \in Vppbs}
      [] c = "mem" -> {[type |-> "M2SReq", addr |-> HdmBase(i), bi_id |-> 0] : i \in Vppbs}
      [] c = "cache" -> {[type |-> "H2DReq", cache_id |-> b] : b \in CacheIds}

\* The host sends its next request on class c.
HostSendNumbered(c) ==
    /\ sent < MaxSent
    /\ \E packet \in OrderedRequests(c) :
          /\ us_h2t' = [us_h2t EXCEPT ![c] = Append(@, WithSeq(packet, sent + 1))]
          /\ last' = StepLast("", "host_send", c, packet.type, None)
    /\ sent' = sent + 1
    /\ UNCHANGED <<mvars, lvars, xvars, loop_time, cxl_mem_packet, mem_target_port, cache_route_table, stop_called, putters, arrived,
                   vcs_id, dvars, cvars, bvars, us_t2h, ds_h2t, ds_t2h, tvars>>

\* A running switch with any binding and a Cache Route Table that names a
\* vPPB for every cache id.
InitOrder ==
    /\ SwitchRunning
    /\ vcs_id = 0
    /\ ManagerIdle
    /\ LifeIdle
    /\ HistoryIdle
    /\ PuttersIdle
    /\ ClockIdle
    /\ CodecIdle
    /\ CciIdle
    /\ cache_route_table \in [CacheIds -> Vppbs]

NextOrder ==
    \/ \E c \in Classes : HostSendNumbered(c)
    \/ ConfigSpaceRouter_process_host_to_target_packets
    \/ MmioRouter_process_host_to_target_packets
    \/ CxlMemRouter_process_host_to_target_packets
    \/ CxlCacheRouter_process_host_to_target_packets

SpecOrder == InitOrder /\ [][NextOrder]_vars

\* ------------------------------------------------ claims: request order
\* C22: for every traffic class, the requests a router has forwarded to one
\* downstream vPPB are on that vPPB's host_to_target queue in the order in
\* which they were taken from the upstream host_to_target queue.
C22_OrderPreserved ==
    \A c \in Classes, i \in Vppbs :
       \A k1, k2 \in 1..Len(ds_h2t[c][i]) :
          k1 < k2 => ds_h2t[c][i][k1].seq < ds_h2t[c][i][k2].seq

C22_Witness ==
    \E c \in {"mem", "cache"}, i \in Vppbs :
       /\ Len(ds_h2t[c][i]) = 2
       /\ ds_h2t[c][i][1].seq = 1
       /\ ds_h2t[c][i][2].seq = 3

\* ------------------------------ specification: rewiring with bounded queues
\* Capacity of the upstream target_to_host queue: a put on a full queue
\* blocks the task until there is room.
Capacity == 1

\* target_to_host tasks of router c for vPPB i that wait in get().
Getters(c, i) ==
    t2h_tasks[c][i]
      - Cardinality({k \in 1..Len(putters[c]) : putters[c][k].vppb = i})

WithFrom(r, i, n) ==
    [f \in (DOMAIN r) \cup {"from", "seq"} |->
        IF f = "from" THEN i ELSE IF f = "seq" THEN n ELSE r[f]]

\* The target behind bound vPPB i sends its next configuration completion.
DeviceSendNumbered(i) ==
    /\ sent < MaxSent
    /\ IsBound(i)
    /\ proc_state[bind_slots[i].processor] = "running"
    /\ ds_t2h' = [ds_t2h EXCEPT !["cfg"][i] =
                     Put(@, WithFrom(CxlIoCompletionPacket_create(1, 0, 0, CPL_STATUS_SC),
                                     i, sent + 1))]
    /\ sent' = sent + 1
    /\ last' = [op |-> "device_send", out |-> "cfg", kind |-> "Cpl", port |-> i]
    /\ UNCHANGED <<mvars, lvars, xvars, loop_time, cxl_mem_packet, mem_target_port, cache_route_table, stop_called, putters, arrived,
                   vcs_id, dvars, cvars, bvars, us_h2t, us_t2h, ds_h2t, tvars>>

\* A target_to_host task of router c for vPPB i returns from get(): the
\* sentinel ends it; a packet is put upstream at once when there is room,
\* and otherwise the task blocks in the put, behind the tasks already
\* blocked there.
Router_target_to_host_get(c, i) ==
    /\ Getters(c, i) > 0
    /\ ds_t2h[c][i] # <<>>
    /\ LET got == Head(ds_t2h[c][i])
           packet == ResetReqId(got)
       IN /\ ds_t2h' = [ds_t2h EXCEPT ![c][i] = Tail(@)]
          /\ IF got = NonePkt
             THEN /\ t2h_tasks' = [t2h_tasks EXCEPT ![c][i] = @ - 1]
                  /\ UNCHANGED <<us_t2h, putters, arrived, last>>
             ELSE IF Len(us_t2h[c]) < Capacity
             THEN /\ us_t2h' = [us_t2h EXCEPT ![c] = Put(@, packet)]
                  /\ arrived' = Append(arrived, [from |-> i, seq |-> got.seq])
                  /\ last' = [op |-> "t2h_get", out |-> "put", kind |-> got.type,
                              port |-> i]
                  /\ UNCHANGED <<t2h_tasks, putters>>
             ELSE /\ putters' = [putters EXCEPT ![c] =
                                    Append(@, [vppb |-> i, packet |-> packet])]
                  /\ last' = [op |-> "t2h_get", out |-> "blocked", kind |-> got.type,
                              port |-> i]
                  /\ UNCHANGED <<t2h_tasks, us_t2h, arrived>>
    /\ UNCHANGED <<mvars, lvars, xvars, loop_time, cxl_mem_packet, mem_target_port, cache_route_table, stop_called, sent,
                   vcs_id, dvars, cvars, bvars, us_h2t, ds_h2t, h2t_task, router_fifos>>

\* The task that has been blocked longest in the upstream put of router c
\* resumes once there is room.
Router_target_to_host_put(c) ==
    /\ putters[c] # <<>>
    /\ Len(us_t2h[c]) < Capacity
    /\ LET putter == Head(putters[c])
       IN /\ us_t2h' = [us_t2h EXCEPT ![c] = Put(@, putter.packet)]
          /\ putters' = [putters EXCEPT ![c] = Tail(@)]
          /\ arrived' = Append(arrived, [from |-> putter.vppb, seq |-> putter.packet.seq])
          /\ last' = [op |-> "t2h_put", out |-> "put", kind |-> putter.packet.type,
                      port |-> putter.vppb]
    /\ UNCHANGED <<mvars, lvars, xvars, loop_time, cxl_mem_packet, mem_target_port, cache_route_table, stop_called, sent,
                   vcs_id, dvars, cvars, bvars, us_h2t, ds_h2t, ds_t2h, tvars>>

\* bind / unbind calls while the targets send configuration completions.
NextRewire ==
    \/ \E v \in Vppbs, port \in Ports : VcsBindBegin(v, port)
    \/ PortBinder_bind_vppb_resume
    \/ \E v \in Vppbs : VcsUnbindBegin(v)
    \/ PortBinder_unbind_vppb_resume
    \/ update_router
    \/ \E p \in ProcIds : ProcessorRun(p)
    \/ \E p \in ProcIds : ProcessorStopped(p)
    \/ \E i \in Vppbs : DeviceSendNumbered(i)
    \/ \E i \in Vppbs : Router_target_to_host_get("cfg", i)
    \/ Router_target_to_host_put("cfg")
    \/ HostRecv("cfg")

SpecRewire == Init /\ [][NextRewire]_vars

\* ------------------------------------------------------- claims: rewiring
\* C23: the packets a downstream vPPB put on its target_to_host queue reach
\* the upstream target_to_host queue in the same order, also when
\* update_router runs for the vPPB while packets are queued or while the
\* old forwarding task is blocked in the upstream put.
C23_RewireKeepsOrder ==
    \A k1, k2 \in 1..Len(arrived) :
       (k1 < k2 /\ arrived[k1].from = arrived[k2].from)
          => arrived[k1].seq < arrived[k2].seq

\* update_router has added a second task for a vPPB whose old task is
\* blocked in the upstream put, and a later packet of the vPPB is queued.
C23_Witness ==
    \E i \in Vppbs :
       /\ \E k \in 1..Len(putters["cfg"]) : putters["cfg"][k].vppb = i
       /\ Getters("cfg", i) > 0
       /\ ds_t2h["cfg"][i] # <<>>
       /\ Head(ds_t2h["cfg"][i]) # NonePkt

\* ------------------------------- specification: packets the routers reject
\* CXL.mem and CXL.cache traffic from the host, every kind of packet
\* included; each Cache Route Table entry names vPPB 0, a port beyond the
\* vPPBs, or no port.
InitFaults ==
    /\ InitCacheH2T
    /\ vcs_id = 0
    /\ cache_route_table \in [CacheIds -> {0, Cardinality(Vppbs), None}]

NextFaults ==
    \/ HostSendMem
    \/ CxlMemRouter_process_host_to_target_packets
    \/ \E i \in Vppbs : DeviceRecvMem(i)
    \/ CxlMemRouter_stop
    \/ HostSendCache
    \/ CxlCacheRouter_process_host_to_target_packets
    \/ \E i \in Vppbs : DeviceRecvCache(i)

SpecFaults == InitFaults /\ [][NextFaults]_vars

\* ------------------------------------------------ claims: router failures
\* C29: no packet makes a routing task fail: a host_to_target task that
\* takes a packet other than the None sentinel handles it and is alive
\* afterwards, and an M2S BIRsp that matches no vPPB is put on no queue.
C29_NoPacketEndsTask ==
    [][/\ \A c \in {"mem", "cache"} :
             (TakesFromHost(c) /\ Head(us_h2t[c]) # NonePkt) => h2t_task'[c]
       /\ (/\ TakesFromHost("mem")
           /\ Head(us_h2t["mem"]).type = "M2SBIRsp"
           /\ BIRspTarget(Head(us_h2t["mem"]).bi_id) = None)
             => ds_h2t' = ds_h2t]_vars

\* A routing task has just ended on a packet: an unexpected message class,
\* an M2S BIRsp that matches no vPPB, or a target port beyond the vPPBs.
C29_Witness ==
    /\ last.op \in {"mem_h2t", "cache_h2t"}
    /\ last.out \in {"raise_unexpected", "raise_unbound", "raise_out_of_bound"}
    /\ \E c \in {"mem", "cache"} : ~h2t_task[c]

C29_WitnessBIRsp ==
    /\ last.op = "mem_h2t" /\ last.kind = "M2SBIRsp" /\ last.out = "raise_unbound"

C29_WitnessOutOfBound ==
    /\ last.op = "cache_h2t" /\ last.out = "raise_out_of_bound"

\* ------------------------------- specification: routing, rewiring and stop
\* The host sends one of a counted number of CXL.mem packets: an M2S Req to
\* the window of vPPB 0, or a packet of a class the router does not expect.
HostSendMemCounted ==
    /\ sent < MaxSent
    /\ \E packet \in {[type |-> "M2SReq", addr |-> HdmBase(0), bi_id |-> 0],
                      [type |-> "S2MNDR", addr |-> 0, bi_id |-> 0]} :
          /\ us_h2t' = [us_h2t EXCEPT !["mem"] = Put(@, packet)]
          /\ last' = [op |-> "host_send", out |-> "mem", kind |-> packet.type,
                      port |-> None]
    /\ sent' = sent + 1
    /\ UNCHANGED <<mvars, lvars, xvars, loop_time, cxl_mem_packet, mem_target_port, cache_route_table, stop_called,
                   putters, arrived, vcs_id, dvars, cvars, bvars, us_t2h, ds_h2t,
                   ds_t2h, tvars>>

\* The target behind bound vPPB i sends one of a counted number of S2M
\* packets.
DeviceSendMemCounted(i) ==
    /\ sent < MaxSent
    /\ IsBound(i)
    /\ ds_t2h' = [ds_t2h EXCEPT !["mem"][i] =
                     Put(@, [type |-> "S2MNDR", bi_id |-> 0, h |-> 0])]
    /\ last' = [op |-> "device_send", out |-> "mem", kind |-> "S2MNDR", port |-> i]
    /\ sent' = sent + 1
    /\ UNCHANGED <<mvars, lvars, xvars, loop_time, cxl_mem_packet, mem_target_port, cache_route_table, stop_called,
                   putters, arrived, vcs_id, dvars, cvars, bvars, us_h2t, us_t2h,
                   ds_h2t, tvars>>

\* The unbind calls of Spec, each rewiring the routers, under CXL.mem traffic
\* in both directions, with the CxlMemRouter stopped at any moment.
NextDrain ==
    \/ \E v \in Vppbs : VcsUnbindBegin(v)
    \/ PortBinder_unbind_vppb_resume
    \/ update_router
    \/ \E p \in ProcIds : ProcessorStopped(p)
    \/ HostSendMemCounted
    \/ CxlMemRouter_process_host_to_target_packets
    \/ \E i \in Vppbs : DeviceRecvMem(i)
    \/ \E i \in Vppbs : DeviceSendMemCounted(i)
    \/ \E i \in Vppbs : CxlMemRouter_process_target_to_host_packets(i)
    \/ HostRecv("mem")
    \/ CxlMemRouter_stop

SpecDrain == Init /\ [][NextDrain]_vars

\* ------------------------------------------------- claims: no packet lost
\* A packet is queued in front of a sentinel.
BeforeSentinel(queue) ==
    \E k1, k2 \in 1..Len(queue) :
       k1 < k2 /\ queue[k1] # NonePkt /\ queue[k2] = NonePkt

\* C24: every packet enqueued on a router-consumed queue before the stop
\* sentinel is dequeued by a routing task: no queue whose routing tasks have
\* all ended holds a packet in front of a sentinel.
C24_NoPacketStranded ==
    /\ \A c \in Classes : ~h2t_task[c] => ~BeforeSentinel(us_h2t[c])
    /\ \A c \in Classes, i \in Vppbs :
          t2h_tasks[c][i] = 0 => ~BeforeSentinel(ds_t2h[c][i])

\* The target_to_host half of C24.
C24_NoPacketStrandedToHost ==
    \A c \in Classes, i \in Vppbs :
       t2h_tasks[c][i] = 0 => ~BeforeSentinel(ds_t2h[c][i])

\* The router has been stopped during a rewire, with a packet queued in
\* front of the sentinels of a vPPB that two tasks serve.
C24_Witness ==
    /\ "mem" \in stop_called
    /\ call.pc = "update"
    /\ \E i \in Vppbs :
          /\ t2h_tasks["mem"][i] = 2
          /\ BeforeSentinel(ds_t2h["mem"][i])

\* -------------------------------------- client: retry and the deadline
\* _run: time_out = 120, and asyncio.sleep(1) between two attempts.
time_out == 120
sleep_delay == 1

\* A client starts by MaxStart, and the clock is followed second by second
\* up to NearStart and from NearStart seconds before the earliest deadline up
\* to MaxTime.
MaxTime == 122
MaxStart == 1
NearStart == 2
TimedClients == {1}
Times == (0..NearStart) \cup ((time_out - NearStart)..MaxTime)

\* The event loop's clock advances while nothing else runs.
Tick ==
    /\ loop_time < MaxTime
    /\ loop_time' = Min({t \in Times : t > loop_time})
    /\ UNCHANGED <<mvars, lvars, xvars, last, vcs_id, bvars, qvars, tvars, cvars, dvars,
                   cxl_mem_packet, mem_target_port, cache_route_table, sent,
                   putters, arrived, stop_called>>

\* _run, the except branch (lines 113-124): the state of the client whose
\* _connect raised error at the given time.
RunAfterError_after_deadline(cl, error, time) ==
    IF ~cl.retry
    THEN [cl EXCEPT !.pc = "failed", !.connect_error = error, !.error = error]
    ELSE IF time > cl.end_time
    THEN [cl EXCEPT !.pc = "failed", !.connect_error = error,
                    !.error = "Timed out waiting for CXL-Switch"]
    ELSE [cl EXCEPT !.pc = "sleep", !.connect_error = error,
                    !.wake = time + sleep_delay]

RunAfterError(cl, error, time) ==
    IF ~cl.retry
    THEN [cl EXCEPT !.pc = "failed", !.connect_error = error, !.error = error]
    ELSE IF time >= cl.end_time
    THEN [cl EXCEPT !.pc = "failed", !.connect_error = error,
                    !.error = "Timed out waiting for CXL-Switch"]
    ELSE [cl EXCEPT !.pc = "sleep", !.connect_error = error,
                    !.wake = time + sleep_delay]

\* _connect, line 59: asyncio.open_connection raises because nothing accepts
\* the connection.
Refused(c, cl) ==
    /\ clients' = [clients EXCEPT ![c] =
                      RunAfterError([cl EXCEPT !.attempts = @ + 1],
                                    "Connection refused", loop_time)]
    /\ last' = [op |-> "connect_refused", out |-> "Connection refused",
                kind |-> "", port |-> cl.port_index, sock |-> None]
    /\ UNCHANGED socks

\* One call of _connect up to its first wait or its failure.
Attempt(c, cl) == Connect(c, cl) \/ Refused(c, cl)

\* _run up to the first _connect: with retry it fixes end_time first.
ClientRunTimed(c) ==
    /\ clients[c].pc = "new"
    /\ loop_time <= MaxStart
    /\ \E pi \in PortIndexes, retry \in BOOLEAN,
          inj \in InjectedErrors \cup {NoInjectedError} :
          Attempt(c, [clients[c] EXCEPT
                         !.port_index = pi, !.retry = retry, !.injected_error = inj,
                         !.end_time = IF retry THEN loop_time + time_out ELSE None])
    /\ UNCHANGED <<lvars, svars, ports, events>>

\* _run, lines 109-110 and 129: the loop finds the stop signal and breaks,
\* and line 129 reads `writer`, which no _connect has assigned.
RunAfterStopSignal(c, cl) ==
    /\ clients' = [clients EXCEPT ![c] =
                      [cl EXCEPT !.pc = "failed", !.error = "UnboundLocalError"]]
    /\ last' = [op |-> "client_run", out |-> "UnboundLocalError", kind |-> "error",
                port |-> cl.port_index, sock |-> None]
    /\ UNCHANGED socks

\* _run with retry: asyncio.sleep(1) is over; the loop ends on the stop
\* signal and calls _connect again otherwise.
ClientRetryTimed(c) ==
    /\ clients[c].pc = "sleep"
    /\ loop_time >= clients[c].wake
    /\ IF clients[c].stop_signal
       THEN RunAfterStopSignal(c, clients[c])
       ELSE Attempt(c, clients[c])
    /\ UNCHANGED <<lvars, svars, ports, events>>

\* _stop of a client that has no packet processor yet: the stop signal is
\* set, and line 146 calls stop() on None.
SwitchConnectionClient_stop(c) ==
    /\ clients[c].pc \in {"sleep", "wait_response"}
    /\ ~clients[c].stop_signal
    /\ clients' = [clients EXCEPT ![c].stop_signal = TRUE,
                                  ![c].stop_error = "AttributeError"]
    /\ last' = [op |-> "client_stop", out |-> "AttributeError", kind |-> "error",
                port |-> clients[c].port_index, sock |-> clients[c].sock]
    /\ UNCHANGED <<lvars, svars, ports, events, socks>>

\* The client reads the response (_connect from line 73); on success _run
\* starts its packet processor and reports ready.
ClientRecvTimed(c) ==
    /\ clients[c].pc = "wait_response"
    /\ socks[clients[c].sock].resp # <<>>
    /\ LET s == clients[c].sock
           response == Head(socks[s].resp)
           error == ConnectError(response)
       IN /\ socks' = [socks EXCEPT ![s].resp = Tail(@)]
          /\ clients' = [clients EXCEPT ![c] =
                IF error = ""
                THEN [@ EXCEPT !.pc = "running", !.connect_error = ""]
                ELSE RunAfterError(@, error, loop_time)]
          /\ last' = [op |-> "client_recv", out |-> error, kind |-> "",
                      port |-> clients[c].port_index, sock |-> s]
    /\ UNCHANGED <<lvars, svars, ports, events>>

NextRetry ==
    \/ \E c \in TimedClients : ClientRunTimed(c)
    \/ \E c \in TimedClients : ClientRetryTimed(c)
    \/ \E c \in TimedClients : ClientRecvTimed(c)
    \/ \E c \in TimedClients : ClientStop(c)
    \/ \E s \in Socks : HandleRequest(s)
    \/ \E s \in Socks : StartProcessor(s)
    \/ \E s \in Socks : ProcessorExit(s)
    \/ Tick

SpecRetry == InitConn /\ [][NextRetry]_vars

\* In this step an attempt of client c to connect fails.
AttemptFails(c) ==
    \/ /\ clients[c].pc = "wait_response"
       /\ clients'[c].pc \notin {"wait_response", "running"}
    \/ /\ clients[c].pc \in {"new", "sleep"}
       /\ clients'[c].pc \in {"sleep", "failed"}
       /\ clients'[c].attempts = clients[c].attempts + 1

\* In this step client c calls _connect.
Attempts(c) ==
    /\ clients[c].pc \in {"new", "sleep"}
    /\ clients'[c] # clients[c]

TimeoutError == "Timed out waiting for CXL-Switch"

\* C25: a client with retry fixes its deadline 120 s after its start; each
\* failed attempt before the deadline is followed by a sleep of one second
\* and then a new attempt, the first failure at or after the deadline ends
\* the run with the timeout error; without retry the first failure ends the
\* run with the error of the attempt; the client becomes running only by
\* reading a CONNECTION_ACCEPT.
C25_RetryUntilDeadline ==
    [][\A c \in TimedClients :
        LET cl == clients[c]
            after == clients'[c]
        IN /\ (cl.pc = "new" /\ Attempts(c) /\ after.retry) =>
                  after.end_time = loop_time + 120
           /\ (AttemptFails(c) /\ after.retry /\ loop_time < after.end_time) =>
                  /\ after.pc = "sleep"
                  /\ after.wake = loop_time + 1
           /\ (AttemptFails(c) /\ after.retry /\ loop_time >= after.end_time) =>
                  /\ after.pc = "failed"
                  /\ after.error = TimeoutError
           /\ (AttemptFails(c) /\ ~after.retry) =>
                  /\ after.pc = "failed"
                  /\ after.error = after.connect_error
                  /\ after.error # TimeoutError
                  /\ after.attempts <= 1
           /\ (cl.pc = "sleep" /\ Attempts(c)) => loop_time >= cl.wake
           /\ (cl.pc # "running" /\ after.pc = "running") =>
                  /\ cl.pc = "wait_response"
                  /\ Head(socks[cl.sock].resp) =
                         BaseSidebandPacket_create(CONNECTION_ACCEPT)
    ]_vars

\* A client with retry has failed an attempt exactly at its deadline, after
\* an earlier attempt, and ended with the timeout error.
C25_Witness ==
    \E c \in TimedClients :
        /\ clients[c].pc = "failed"
        /\ clients[c].retry
        /\ clients[c].error = TimeoutError
        /\ clients[c].attempts >= 2
        /\ loop_time = clients[c].end_time
        /\ last.op \in {"connect_refused", "client_recv"}

\* ------------------------------- codec: constructors that carry an address
\* An address is kept in three parts, value = (hi * 2^46 + line) * 64 + lo:
\* lo is addr % 0x40, and addr >> 6 is the number hi * 2^46 + line, of which
\* line is the part that a field of LineBits bits holds.
LineBits == 46
MaxHi == 1
MaxLine == 2
Lows == {0, 1, 32, 63}
Addresses == [hi : 0..MaxHi, line : 0..MaxLine, lo : Lows]

\* addr % 0x40
Mod0x40(addr) == addr.lo

\* addr >> 6
Shr6(addr) == [hi |-> addr.hi, line |-> addr.line]

\* field << 6, for the value of a field of LineBits bits
Shl6(field) == [hi |-> 0, line |-> field, lo |-> 0]

\* The constructors, each with the header it fills and the BitField of addr in
\* it (first bit, last bit).
AddrConstructors ==
    {[name |-> "CxlMemMemRdPacket", header |-> "m2sreq_header", first |-> 28, last |-> 73],
     [name |-> "CxlMemMemWrPacket", header |-> "m2srwd_header", first |-> 28, last |-> 73],
     [name |-> "CxlMemBISnpPacket", header |-> "s2mbisnp_header", first |-> 29, last |-> 74],
     [name |-> "CxlCacheCacheD2HReqPacket", header |-> "d2hreq_header", first |-> 23, last |-> 68],
     [name |-> "CxlCacheCacheH2DReqPacket", header |-> "h2dreq_header", first |-> 4, last |-> 49]}

\* The value fits the BitField: it has no bit beyond the field's width.
FitsField(value, ctor) ==
    /\ ctor.last - ctor.first + 1 = LineBits
    /\ value.hi = 0

\* What storing a value in the header's addr BitField can do: store it when it
\* fits; when it does not fit, either raise or keep the low bits only.
StoreOutcomes(value, ctor) ==
    IF FitsField(value, ctor) THEN {"stored"} ELSE {"raise", "truncated"}

\* `if addr % 0x40: raise Exception("Address must be a multiple of 0x40")`
AnyAddress(addr) == FALSE

Misaligned(addr) == Mod0x40(addr) # 0

\* create(addr, ...): the packet it returns, or the error it raises.
CreateResult(ctor, addr, outcome) ==
    IF Misaligned(addr)
    THEN [status |-> "raise", error |-> "Address must be a multiple of 0x40"]
    ELSE IF outcome = "raise"
    THEN [status |-> "raise", error |-> "BitField"]
    ELSE [status |-> "packet", header |-> ctor.header, addr |-> Shr6(addr).line]

\* packet.get_address()
get_address(packet) == Shl6(packet.addr)

\* A call of one of the constructors with any address.
InitCreate ==
    /\ SwitchQuiet
    /\ ManagerIdle
    /\ LifeIdle
    /\ cache_route_table = <<>>
    /\ HistoryIdle
    /\ PuttersIdle
    /\ ClockIdle
    /\ CciIdle
    /\ created \in [ctor : AddrConstructors, addr : Addresses, result : {NoCall}]

PacketCreate ==
    /\ created.result = NoCall
    /\ \E outcome \in StoreOutcomes(Shr6(created.addr), created.ctor) :
          created' = [created EXCEPT
                         !.result = CreateResult(created.ctor, created.addr, outcome)]
    /\ UNCHANGED <<mvars, lvars, last, vcs_id, bvars, qvars, tvars, cvars, dvars,
                   cxl_mem_packet, mem_target_port, nvars, cci_requests,
                   cci_executor, cci_h2t, cci_t2h, cci_responses>>

NextCreate == PacketCreate

SpecCreate == InitCreate /\ [][NextCreate]_vars

\* The constructor has returned or raised.
Created == created # NoCall /\ created.result # NoCall

\* C26 as stated: a misaligned address makes the constructor fail, and for
\* every aligned address it returns a packet whose header stores addr >> 6 and
\* whose get_address() is the address.
C26_AlignedRoundTrip ==
    Created =>
        IF created.addr.lo # 0
        THEN created.result.status = "raise"
        ELSE /\ created.result.status = "packet"
             /\ [hi |-> 0, line |-> created.result.addr] =
                    [hi |-> created.addr.hi, line |-> created.addr.line]
             /\ get_address(created.result) = created.addr

\* C26 amended: a misaligned address makes the constructor fail, and for every
\* aligned address below 2^52 it returns a packet whose header stores
\* addr >> 6 and whose get_address() is the address.
C26_AlignedRoundTripInRange ==
    Created =>
        IF created.addr.lo # 0
        THEN created.result.status = "raise"
        ELSE created.addr.hi = 0 =>
                /\ created.result.status = "packet"
                /\ created.result.addr = created.addr.line
                /\ get_address(created.result) = created.addr

\* A constructor has returned the packet of an aligned, nonzero address.
C26_Witness ==
    /\ Created
    /\ created.result.status = "packet"
    /\ created.addr.hi = 0
    /\ created.addr.line = MaxLine
    /\ created.ctor.name = "CxlMemBISnpPacket"

\* A constructor has refused a misaligned address.
C26_WitnessMisaligned ==
    /\ Created
    /\ created.addr.lo = 32
    /\ created.result.status = "raise"

\* ------------------------------------------ codec: CxlIoMemRdPacket.create
\* The addresses and byte lengths the constructor is called with.
IoAddresses == {0, 1, 3, 4, 254, 255, 256, 258, 305419896}
MaxLength == 12
IoLengths == 0..MaxLength

\* n.to_bytes(7, byteorder="big"): the seven bytes of n, the most
\* significant first.
RECURSIVE ByteOf(_, _)
ByteOf(n, k) == IF k = 0 THEN n % 256 ELSE ByteOf(n \div 256, k - 1)

to_bytes_big(n) == [i \in 1..7 |-> ByteOf(n, 7 - i)]

\* int.from_bytes(bytes, byteorder="big")
RECURSIVE from_bytes_big(_)
from_bytes_big(bytes) ==
    IF bytes = <<>> THEN 0
    ELSE from_bytes_big(SubSeq(bytes, 1, Len(bytes) - 1)) * 256 + bytes[Len(bytes)]

\* The value 2^i for a bit of a byte-enable.
Pow2(i) == IF i = 0 THEN 1 ELSE IF i = 1 THEN 2 ELSE IF i = 2 THEN 4 ELSE 8

Sum4(f) == f[0] + f[1] + f[2] + f[3]

\* ((1 << length) - 1) << address_offset, then the four bits from bit `from`.
ByteEnables(address_offset, length, from) ==
    Sum4([i \in 0..3 |->
            IF address_offset <= from + i /\ from + i < address_offset + length
            THEN Pow2(i) ELSE 0])

\* fill, line 338: the `length` field of the TLP header, in DWORDs.
length_dword_of(address_offset, length) == (address_offset + length + 3) \div 4

\* CxlIoMemReqPacket.fill(addr, length, req_id, tag), as called by
\* CxlIoMemRdPacket.create(addr, length): the fields of the packet. A field
\* that is the result of int.from_bytes(.., "little") is kept as its bytes,
\* the least significant first. length_dword & 0x300 is 0 for every length
\* below 1021, which the two bits of length_upper hold.
fill(addr, length, req_id, tag) ==
    LET address_offset == addr % 4
        length_dword == length_dword_of(address_offset, length)
    IN [fmt_type |-> "MRD_64B",
        length_upper |-> ((length_dword \div 256) % 4) * 256,
        length_lower |-> length_dword % 256,
        req_id |-> req_id,
        tag |-> tag,
        first_dw_be |-> ByteEnables(address_offset, length, 0),
        last_dw_be |-> IF length_dword > 1
                       THEN ByteEnables(address_offset, length, (length_dword - 1) * 4)
                       ELSE 0,
        addr_upper |-> to_bytes_big(addr \div 256),
        addr_lower |-> (addr % 256) \div 4]

\* CxlIoMemReqPacket.get_address
IoMem_get_address(packet) ==
    from_bytes_big(packet.addr_upper) * 256 + packet.addr_lower * 4

\* CxlIoMemReqPacket.get_data_size, on the header fields
IoMem_get_data_size(packet) ==
    (packet.length_upper * 256 + (packet.length_lower % 256)) * 4

\* A call of CxlIoMemRdPacket.create(addr, length), the class's tag counter
\* at 0.
InitIoMemRd ==
    /\ SwitchQuiet
    /\ ManagerIdle
    /\ LifeIdle
    /\ cache_route_table = <<>>
    /\ HistoryIdle
    /\ PuttersIdle
    /\ ClockIdle
    /\ CciIdle
    /\ created \in [ctor : {"CxlIoMemRdPacket"}, addr : IoAddresses,
                    length : IoLengths, tag : {0}, result : {NoCall}]

\* create: req_id is None, so 0; tag is None, so get_tag(), which steps the
\* counter modulo 256.
CxlIoMemRdPacket_create ==
    /\ created.result = NoCall
    /\ created' = [created EXCEPT
                      !.tag = (@ + 1) % 256,
                      !.result = fill(created.addr, created.length, 0, created.tag % 256)]
    /\ UNCHANGED <<mvars, lvars, last, vcs_id, bvars, qvars, tvars, cvars, dvars,
                   cxl_mem_packet, mem_target_port, nvars, cci_requests,
                   cci_executor, cci_h2t, cci_t2h, cci_responses>>

NextIoMemRd == CxlIoMemRdPacket_create

SpecIoMemRd == InitIoMemRd /\ [][NextIoMemRd]_vars

\* C27: the packet of CxlIoMemRdPacket.create(addr, len) has
\* get_address() = (addr // 4) * 4 and IoMem_get_data_size() = len.
C27_AddressAndSize ==
    Created =>
        /\ IoMem_get_address(created.result) = (created.addr \div 4) * 4
        /\ IoMem_get_data_size(created.result) = created.length

\* The part of C27 that the constructor keeps: the address, and the size
\* rounded to the DWORDs that the bytes addr .. addr + len - 1 touch.
C27_AddressAndDwords ==
    Created =>
        /\ IoMem_get_address(created.result) = (created.addr \div 4) * 4
        /\ IoMem_get_data_size(created.result) =
               (((created.addr % 4) + created.length + 3) \div 4) * 4

\* The packet of create(0xFF, 8) reports a data size of 12.
C27_Witness ==
    /\ Created
    /\ created.addr = 255
    /\ created.length = 8
    /\ IoMem_get_data_size(created.result) = 12

\* --------------------------------------- CCI: Tunnel Management Command
\* The command sizes a request declares, and the byte counts a device
\* answers with.
CommandSizes == {1, 4, 6}
ResponseLens == {0, 8}

\* TunnelManagementRequestPayload.dump(): command_size + 4 bytes, the
\* command_size field at bytes 2..3.
dump(n, port_or_ld_id, command_size) ==
    [n |-> n, port_or_ld_id |-> port_or_ld_id, command_size |-> command_size,
     data_len |-> command_size + 4]

\* Bytes written by hand: len(data) bytes in all, of which four are the
\* header, with any command_size field.
raw(n, port_or_ld_id, command_size, data_len) ==
    [n |-> n, port_or_ld_id |-> port_or_ld_id, command_size |-> command_size,
     data_len |-> data_len]

\* TunnelManagementRequestPayload.parse(data) returns: it raises ValueError
\* when len(data) != command_size.
ParseAccepts(data) == data.data_len = data.command_size

\* The fabric manager sends a Tunnel Management request: one made by
\* create_cci_request (dump), or bytes of its own.
FmSendTunnel ==
    /\ sent < MaxSent
    /\ sent' = sent + 1
    /\ \E p \in PhysicalPorts, size \in CommandSizes :
          \/ cci_requests' = Append(cci_requests, dump(sent' , p, size))
          \/ /\ size >= 4
             /\ cci_requests' = Append(cci_requests, raw(sent', p, size, size))
    /\ UNCHANGED <<mvars, lvars, last, vcs_id, bvars, qvars, tvars, cvars, dvars,
                   cxl_mem_packet, mem_target_port, cache_route_table, putters,
                   arrived, stop_called, loop_time, created, cci_executor,
                   cci_h2t, cci_t2h, cci_responses>>

\* CciPayloadPacket.create(real_payload, real_payload_len) for request data
InnerPacket(data) ==
    [type |-> "CciPayloadPacket", length |-> data.command_size, n |-> data.n]

\* The executor takes the next request and runs _execute up to its first
\* wait: parse the payload, look up the port device, put the inner packet on
\* its cci host_to_target queue. A request that parse refuses is answered
\* with an error.
TunnelManagementCommand_execute ==
    /\ cci_executor.pc = "idle"
    /\ cci_requests # <<>>
    /\ LET data == Head(cci_requests)
           p == data.port_or_ld_id
       IN /\ cci_requests' = Tail(cci_requests)
          /\ IF ParseAccepts(data)
             THEN /\ cci_h2t' = [cci_h2t EXCEPT ![p] = Put(@, InnerPacket(data))]
                  /\ cci_executor' = [pc |-> "wait_response", request |-> data]
                  /\ UNCHANGED cci_responses
             ELSE /\ cci_responses' = Append(cci_responses,
                        [n |-> data.n, return_code |-> "error",
                         response_size |-> 0, of |-> None])
                  /\ UNCHANGED <<cci_h2t, cci_executor>>
    /\ UNCHANGED <<mvars, lvars, last, vcs_id, bvars, qvars, tvars, cvars, dvars,
                   cxl_mem_packet, mem_target_port, nvars, created, cci_t2h>>

\* The device of port p takes a CCI packet and answers it.
DeviceAnswersCci(p) ==
    /\ cci_h2t[p] # <<>>
    /\ cci_h2t' = [cci_h2t EXCEPT ![p] = Tail(@)]
    /\ \E len \in ResponseLens :
          cci_t2h' = [cci_t2h EXCEPT ![p] =
                         Put(@, [type |-> "CciBasePacket", len |-> len,
                                 n |-> Head(cci_h2t[p]).n])]
    /\ UNCHANGED <<mvars, lvars, last, vcs_id, bvars, qvars, tvars, cvars, dvars,
                   cxl_mem_packet, mem_target_port, nvars, created, cci_requests,
                   cci_executor, cci_responses>>

\* TunnelManagementResponsePayload(dev_response.len(), payload=dev_response.data)
TunnelManagementResponsePayload(request, dev_response) ==
    [n |-> request.n, return_code |-> "success",
     response_size |-> dev_response.len, of |-> dev_response.n]

\* _execute from its wait: take the device's response from the port's cci
\* target_to_host queue and return the tunnel response.
TunnelManagementCommand_respond ==
    /\ cci_executor.pc = "wait_response"
    /\ LET p == cci_executor.request.port_or_ld_id
       IN /\ cci_t2h[p] # <<>>
          /\ cci_t2h' = [cci_t2h EXCEPT ![p] = Tail(@)]
          /\ cci_responses' = Append(cci_responses,
                TunnelManagementResponsePayload(cci_executor.request, Head(cci_t2h[p])))
          /\ cci_executor' = IdleExecutor
    /\ UNCHANGED <<mvars, lvars, last, vcs_id, bvars, qvars, tvars, cvars, dvars,
                   cxl_mem_packet, mem_target_port, nvars, created, cci_requests,
                   cci_h2t>>

NextTunnel ==
    \/ FmSendTunnel
    \/ TunnelManagementCommand_execute
    \/ \E p \in PhysicalPorts : DeviceAnswersCci(p)
    \/ TunnelManagementCommand_respond

SpecTunnel == InitConn /\ [][NextTunnel]_vars

\* In this step the executor takes a request.
TakesRequest == cci_requests # <<>> /\ cci_requests' = Tail(cci_requests)

\* In this step one packet, made of the request, is put on the cci
\* host_to_target queue of the request's port, and on no other.
ForwardsOne(data) ==
    /\ Len(cci_h2t'[data.port_or_ld_id]) = Len(cci_h2t[data.port_or_ld_id]) + 1
    /\ cci_h2t'[data.port_or_ld_id][Len(cci_h2t'[data.port_or_ld_id])].n = data.n
    /\ \A q \in PhysicalPorts \ {data.port_or_ld_id} : cci_h2t'[q] = cci_h2t[q]

\* In this step the executor answers its request.
Answers == Len(cci_responses') = Len(cci_responses) + 1

\* The answer of this step is the tunnel response to the one packet taken in
\* this step from the cci target_to_host queue of the request's port.
RelaysOne(data) ==
    LET p == data.port_or_ld_id
        response == cci_responses'[Len(cci_responses')]
    IN /\ cci_t2h[p] # <<>>
       /\ cci_t2h'[p] = Tail(cci_t2h[p])
       /\ \A q \in PhysicalPorts \ {p} : cci_t2h'[q] = cci_t2h[q]
       /\ response.n = data.n
       /\ response.response_size = Head(cci_t2h[p]).len
       /\ response.of = data.n

\* C28: every Tunnel Management request the executor takes is forwarded as
\* one inner packet on its port's cci host_to_target queue, only while no
\* other request waits for its response; every answer relays the one packet
\* taken from that port's cci target_to_host queue, with its byte count as
\* response_size; requests and responses pair up in order.
C28_TunnelOneToOne ==
    [][/\ TakesRequest =>
            /\ cci_executor.pc = "idle"
            /\ ForwardsOne(Head(cci_requests))
            /\ ~Answers
       /\ Answers =>
            /\ cci_executor.pc = "wait_response"
            /\ RelaysOne(cci_executor.request)
            /\ cci_h2t' = cci_h2t
    ]_vars

\* The part of C28 that holds: the same, for the requests that parse accepts.
C28_TunnelOneToOneParsed ==
    [][/\ (TakesRequest /\ ParseAccepts(Head(cci_requests))) =>
            /\ cci_executor.pc = "idle"
            /\ ForwardsOne(Head(cci_requests))
            /\ ~Answers
       /\ (Answers /\ cci_executor.pc = "wait_response") =>
            /\ RelaysOne(cci_executor.request)
            /\ cci_h2t' = cci_h2t
    ]_vars

\* A request made by create_cci_request has been taken by the executor and
\* answered with an error, and nothing was forwarded for it.
C28_Witness ==
    /\ cci_responses # <<>>
    /\ cci_responses[1].return_code = "error"
    /\ cci_responses[1].n = 1
    /\ cci_h2t = [p \in PhysicalPorts |-> <<>>]
    /\ cci_t2h = [p \in PhysicalPorts |-> <<>>]
    /\ cci_executor.pc = "idle"
    /\ sent = 1

\* Two requests that parse accepts have been relayed, one after the other.
C28_WitnessRelayed ==
    /\ Len(cci_responses) = 2
    /\ \A i \in 1..2 : cci_responses[i].return_code = "success"
                       /\ cci_responses[i].of = cci_responses[i].n
    /\ cci_responses[2].response_size = 8

\* ----------------------------------------- claims: rejected bind / unbind
\* In this step a bind_vppb or unbind_vppb call is rejected by PortBinder:
\* vPPB index out of range, vPPB already BOUND, or vPPB already UNBOUND.
RejectedCall ==
    /\ call.op = "idle"
    /\ call'.op = "idle"
    /\ call'.n = call.n + 1
    /\ last'.kind = "error"
    /\ \/ last'.op \in {"bind", "unbind"} /\ last'.out = "out_of_bound"
       \/ last'.op = "bind" /\ last'.out = "already_bound"
       \/ last'.op = "unbind" /\ last'.out = "already_unbound"

\* C30: a rejected bind_vppb / unbind_vppb leaves every bind slot (status,
\* dsp, processor) and the set of running tasks as they were.
C30_RejectedChangesNothing ==
    [][RejectedCall =>
          /\ bind_slots' = bind_slots
          /\ proc_state' = proc_state
          /\ h2t_task' = h2t_task
          /\ t2h_tasks' = t2h_tasks
    ]_vars

\* The part of C30 that holds: the bind slots, the routers' tasks and every
\* processor but PortBinder's dummy are as they were.
C30_RejectedKeepsSlots ==
    [][RejectedCall =>
          /\ bind_slots' = bind_slots
          /\ \A p \in ProcIds \ {DummyProc} : proc_state'[p] = proc_state[p]
          /\ h2t_task' = h2t_task
          /\ t2h_tasks' = t2h_tasks
    ]_vars

\* The first call is a bind_vppb on a BOUND vPPB: it has been rejected, and
\* the task of the dummy processor has been added.
C30_Witness ==
    /\ call = IdleCall(1)
    /\ last.op = "bind"
    /\ last.out = "already_bound"
    /\ last.kind = "error"
    /\ proc_state[DummyProc] = "scheduled"

\* The first call is an unbind_vppb with an index out of range: rejected, and
\* the task of the dummy processor has been added.
C30_WitnessUnbind ==
    /\ call = IdleCall(1)
    /\ last.op = "unbind"
    /\ last.out = "out_of_bound"
    /\ last.port = Cardinality(Vppbs)
    /\ proc_state[DummyProc] = "scheduled"

\* --------------------------------------- claims: M2S BIRsp, host to target
\* In this step the CxlMemRouter takes an M2S BIRsp from the host.
TakesBIRsp ==
    /\ TakesFromHost("mem")
    /\ Head(us_h2t["mem"]) # NonePkt
    /\ Head(us_h2t["mem"]).type = "M2SBIRsp"

\* C31: an M2S BIRsp is put on the cxl_mem host_to_target queue of the first
\* vPPB whose secondary bus number equals its bi_id, and on no other queue;
\* when no vPPB matches it is put on no queue and the loop goes on.
C31_BIRspForwardOrDrop ==
    [][TakesBIRsp =>
          LET packet == Head(us_h2t["mem"])
              target == BIRspTarget(packet.bi_id)
          IN /\ target # None =>
                   ds_h2t' = [ds_h2t EXCEPT !["mem"][target] = Append(@, packet)]
             /\ target = None => ds_h2t' = ds_h2t
             /\ h2t_task'["mem"]
    ]_vars

\* The part of C31 that holds: where the M2S BIRsp is put.
C31_BIRspTarget ==
    [][TakesBIRsp =>
          LET packet == Head(us_h2t["mem"])
              target == BIRspTarget(packet.bi_id)
          IN /\ target # None =>
                   /\ ds_h2t' = [ds_h2t EXCEPT !["mem"][target] = Append(@, packet)]
                   /\ h2t_task'["mem"]
             /\ target = None => ds_h2t' = ds_h2t
    ]_vars

\* The first packet of the router was an M2S BIRsp that matches no vPPB: the
\* task has ended on it, and the next packet stays on the upstream queue.
C31_Witness ==
    /\ last.op = "mem_h2t"
    /\ last.kind = "M2SBIRsp"
    /\ last.out = "raise_unbound"
    /\ cxl_mem_packet = Unbound
    /\ ~h2t_task["mem"]
    /\ us_h2t["mem"] # <<>>

\* An M2S BIRsp has been forwarded to the vPPB with its bus number.
C31_WitnessForwarded ==
    /\ last.op = "mem_h2t"
    /\ last.kind = "M2SBIRsp"
    /\ last.out = "fwd"
    /\ ds_h2t["mem"][last.port] # <<>>
    /\ get_secondary_bus_number(last.port) =
           ds_h2t["mem"][last.port][Len(ds_h2t["mem"][last.port])].bi_id

\* ------------------------------------------------------- claims: rewiring
\* Sentinels queued for the target_to_host tasks of router c for vPPB i.
QueuedSentinels(c, i) ==
    Cardinality({k \in 1..Len(ds_t2h[c][i]) : ds_t2h[c][i][k] = NonePkt})

\* C32: on a running router every update_router(i) adds one sentinel and one
\* target_to_host task, and every sentinel ends one task: once the sentinels
\* of vPPB i have been consumed exactly one task consumes the vPPB's queue
\* and the router holds the vPPB's own queue, however many times
\* update_router(i) ran.
C32_RewireIdempotent ==
    \A c \in Classes, i \in Vppbs :
       /\ t2h_tasks[c][i] = 1 + QueuedSentinels(c, i)
       /\ router_fifos[c][i] = get_upstream_connection(i)

\* update_router ran for vPPB i of every router in an unbind and again in a
\* bind, and all the sentinels it queued have been consumed.
C32_Witness ==
    \E i \in Vppbs :
       /\ call.pc = "idle"
       /\ hist.phase = "bound" /\ hist.vppb = i /\ i \in hist.unbound_once
       /\ \A c \in Classes : QueuedSentinels(c, i) = 0 /\ t2h_tasks[c][i] = 1

\* update_router ran twice for vPPB i before a sentinel was consumed.
C32_WitnessInSuccession ==
    \E c \in Classes, i \in Vppbs :
       QueuedSentinels(c, i) = 2 /\ t2h_tasks[c][i] = 3

\* ------------------------------------------------ claims: bind processors
\* Lifecycle states in which a bind processor has been handed to the
\* gatherer and has not finished: it forwards, or is about to.
LiveStates == {"scheduled", "running", "stopping"}

\* The bind processors PortBinder created for vPPBs (the dummy processor has
\* connections of its own).
VppbProcs == ProcIds \ {DummyProc}

CxlRouter_stop(c) ==
    /\ c \notin stop_called
    /\ stop_called' = stop_called \cup {c}
    /\ us_h2t' = [us_h2t EXCEPT ![c] = Put(@, NonePkt)]
    /\ ds_t2h' = [ds_t2h EXCEPT ![c] = [i \in Vppbs |-> Put(ds_t2h[c][i], NonePkt)]]
    /\ last' = [op |-> "stop", out |-> c, kind |-> "", port |-> None]
    /\ UNCHANGED <<mvars, lvars, xvars, loop_time, cxl_mem_packet, mem_target_port,
                   cache_route_table, sent, putters, arrived, vcs_id, dvars, cvars,
                   bvars, us_t2h, ds_h2t, tvars>>

\* The host_to_target task of router c gets the sentinel and leaves its loop.
CxlRouter_host_to_target_exit(c) ==
    /\ h2t_task[c]
    /\ us_h2t[c] # <<>>
    /\ Head(us_h2t[c]) = NonePkt
    /\ us_h2t' = [us_h2t EXCEPT ![c] = Tail(@)]
    /\ h2t_task' = [h2t_task EXCEPT ![c] = FALSE]
    /\ UNCHANGED <<mvars, lvars, xvars, loop_time, cxl_mem_packet, mem_target_port,
                   cache_route_table, sent, putters, arrived, stop_called, vcs_id,
                   dvars, cvars, bvars, us_t2h, ds_h2t, ds_t2h, t2h_tasks,
                   router_fifos, last>>

\* The unbind calls of Spec, each rewiring the routers, while the targets
\* send configuration completions over a bounded upstream queue, with the
\* ConfigSpaceRouter stopped at any moment.
NextShutdown ==
    \/ \E v \in Vppbs : VcsUnbindBegin(v)
    \/ PortBinder_unbind_vppb_resume
    \/ update_router
    \/ \E p \in ProcIds : ProcessorStopped(p)
    \/ \E i \in Vppbs : DeviceSendNumbered(i)
    \/ \E i \in Vppbs : Router_target_to_host_get("cfg", i)
    \/ Router_target_to_host_put("cfg")
    \/ HostRecv("cfg")
    \/ CxlRouter_host_to_target_exit("cfg")
    \/ CxlRouter_stop("cfg")

\* The event loop runs every routing task that can go on, and the host takes
\* what is on the upstream queue, so that the queue does not stay full.
FairShutdown ==
    /\ WF_vars(CxlRouter_host_to_target_exit("cfg"))
    /\ \A i \in Vppbs : WF_vars(Router_target_to_host_get("cfg", i))
    /\ WF_vars(Router_target_to_host_put("cfg"))
    /\ WF_vars(HostRecv("cfg"))

\* A running VCS whose vPPBs are all bound.
InitShutdown ==
    /\ Init
    /\ \A i \in Vppbs : bind_slots[i] = BoundSlot(i)

SpecShutdown == InitShutdown /\ [][NextShutdown]_vars /\ FairShutdown

\* ------------------------------------------------ claims: router shutdown
\* Every routing task of router c has left its loop: run() returns.
RoutingTasksExited(c) ==
    /\ ~h2t_task[c]
    /\ \A i \in Vppbs : t2h_tasks[c][i] = 0
    /\ putters[c] = <<>>

\* C34: after stop() has put the sentinels, every routing task of the router,
\* the tasks update_router added included, eventually leaves its loop, as
\* long as the upstream queue does not stay full.
C34_ShutdownTerminates ==
    ("cfg" \in stop_called) ~> RoutingTasksExited("cfg")

\* The router was stopped after a rewire and completions from a target, and
\* all its routing tasks have left their loops.
C34_Witness ==
    /\ "cfg" \in stop_called
    /\ RoutingTasksExited("cfg")
    /\ hist.unbound_once # {}
    /\ sent > 0

\* The router is stopped while a vPPB has two tasks, one of them blocked in
\* the upstream put.
C34_WitnessBlocked ==
    /\ "cfg" \in stop_called
    /\ \E i \in Vppbs :
          /\ t2h_tasks["cfg"][i] = 2
          /\ \E k \in 1..Len(putters["cfg"]) : putters["cfg"][k].vppb = i

\* ------------------------------------------------------ claims: bind slots
\* A slot whose status is BOUND has a DSP and a processor.
BoundSlotsComplete ==
    \A v \in Vppbs :
       bind_slots[v].status = "BOUND"
          => bind_slots[v].dsp # None /\ bind_slots[v].processor # None

\* get_bound_vppbs_count(): the slots whose status is BOUND.
get_bound_vppbs_count == Cardinality({v \in Vppbs : bind_slots[v].status = "BOUND"})

\* C35: in every state bind_vppb and unbind_vppb calls lead to, a slot with
\* status BOUND has a dsp and a processor, and a slot that has left status
\* INIT does not return to it.
C35_BindSlotInvariant ==
    /\ []BoundSlotsComplete
    /\ [][\A v \in Vppbs :
             bind_slots[v].status # "INIT" => bind_slots'[v].status # "INIT"]_vars

\* bind_vppb has bound a slot that was INIT, and another slot has been
\* unbound.
C35_Witness ==
    \E v, w \in Vppbs :
       /\ bind_slots[v].status = "BOUND"
       /\ bind_slots[v].processor > Cardinality(Vppbs)
       /\ v \notin hist.unbound_once
       /\ bind_slots[w].status = "UNBOUND"
       /\ get_bound_vppbs_count = 1

\* ------------------------------------------ specification: PortBinder.stop
\* The processors PortBinder._stop stops: the processor of every slot that
\* has one, and the dummy processor.
StopTargets ==
    {bind_slots[v].processor : v \in {w \in Vppbs : bind_slots[w].processor # None}}
       \cup {DummyProc}

\* PortBinder.stop() with no call in progress: _stop creates a task for the
\* stop() of every target and gathers them.  A stop() that raises ends the
\* gather with its error; the other processors still go on stopping.
PortBinder_stop ==
    /\ call.op = "idle"
    /\ proc_state' = [p \in ProcIds |->
                         IF p \in StopTargets /\ StopOutcome(p) # "raise"
                         THEN StateAfterStop(proc_state[p])
                         ELSE proc_state[p]]
    /\ IF \E p \in StopTargets : StopOutcome(p) = "raise"
       THEN /\ call' = [call EXCEPT !.op = "stop", !.pc = "raised"]
            /\ last' = [op |-> "binder_stop", out |-> "stop_failed", kind |-> "error",
                        port |-> None]
       ELSE /\ call' = [call EXCEPT !.op = "stop", !.pc = "wait_stop"]
            /\ last' = [op |-> "binder_stop", out |-> "stopping", kind |-> "",
                        port |-> None]
    /\ UNCHANGED <<ovars, vcs_id, dvars, hist, qvars, tvars, bind_slots>>

\* PortBinder._stop resumes after `await gather(*tasks)`: every target has
\* stopped.
PortBinder_stop_resume ==
    /\ call.op = "stop" /\ call.pc = "wait_stop"
    /\ \A p \in StopTargets : proc_state[p] = "stopped"
    /\ call' = [call EXCEPT !.pc = "stopped"]
    /\ last' = [op |-> "binder_stop", out |-> "ok", kind |-> "", port |-> None]
    /\ UNCHANGED <<ovars, vcs_id, dvars, hist, qvars, tvars, bvars>>

\* The bind / unbind calls of Spec, followed by PortBinder.stop().
NextBinderStop ==
    \/ Next
    \/ PortBinder_stop
    \/ PortBinder_stop_resume

SpecBinderStop == Init /\ [][NextBinderStop]_vars

\* ------------------------------------------------ claims: PortBinder.stop
\* No call was made, or the last call made was a bind_vppb or unbind_vppb
\* that succeeded (a failed call before it has left nothing but the dummy
\* task, which the successful call adds as well).
AfterSuccessfulCalls ==
    \/ call.n = 0
    \/ last.op \in {"bind", "unbind"} /\ last.out = "ok"

\* C36: PortBinder.stop() after a sequence of successful bind_vppb and
\* unbind_vppb calls, the empty sequence included, raises no error.
C36_StopCompletes ==
    [][(call.op = "idle" /\ call'.op = "stop" /\ AfterSuccessfulCalls)
          => last'.kind # "error"]_vars

\* PortBinder.stop() raises no error once the dummy processor and the
\* processor of every slot have started running.
C36_StopCompletesOnceStarted ==
    [][(/\ call.op = "idle" /\ call'.op = "stop"
        /\ \A p \in StopTargets : proc_state[p] \notin {"unused", "scheduled"})
          => last'.kind # "error"]_vars

\* stop() was called before any bind_vppb or unbind_vppb: the dummy
\* processor never ran, and its stop() has raised.
C36_Witness ==
    /\ call.op = "stop" /\ call.n = 0
    /\ proc_state[DummyProc] = "unused"
    /\ last.op = "binder_stop" /\ last.kind = "error"

\* stop() after a bind and an unbind of the same vPPB has completed: the
\* slot's processor had stopped before.
C36_WitnessAfterUnbind ==
    /\ call.op = "stop" /\ call.pc = "stopped"
    /\ last.out = "ok"
    /\ \E v \in Vppbs : bind_slots[v].status = "UNBOUND" /\ bind_slots[v].processor # None

\* ------------------------------------ specification: stop during the retry
\* The clients of SpecRetry, stopped at any moment before they are connected.
NextStopRetry ==
    \/ NextRetry
    \/ \E c \in TimedClients : SwitchConnectionClient_stop(c)

SpecStopRetry == InitConn /\ [][NextStopRetry]_vars

\* ---------------------------------------- claims: stop during the retry
\* In this step the retry loop of client c finds the stop signal.
ObservesStop(c) ==
    /\ clients[c].pc = "sleep"
    /\ clients[c].stop_signal
    /\ clients'[c].pc # "sleep"

\* In this step _stop of client c runs before a packet processor exists.
StopsBeforeConnected(c) == ~clients[c].stop_signal /\ clients'[c].stop_signal

\* C37: when the retry loop finds the stop signal before any handshake
\* succeeded, the run ends with no packet processor and no error, and _stop
\* raises no error although there is no packet processor.
C37_StopWhileRetryingIsClean ==
    [][\A c \in TimedClients :
          /\ ObservesStop(c) =>
                /\ clients'[c].pc \notin {"running", "wait_response"}
                /\ clients'[c].error = ""
          /\ StopsBeforeConnected(c) => clients'[c].stop_error = ""]_vars

\* What the code does: the run ends with no packet processor and raises
\* UnboundLocalError, and _stop raises AttributeError.
C37_StopWhileRetryingRaises ==
    [][\A c \in TimedClients :
          /\ ObservesStop(c) =>
                /\ clients'[c].pc = "failed"
                /\ clients'[c].error = "UnboundLocalError"
          /\ StopsBeforeConnected(c) => clients'[c].stop_error = "AttributeError"]_vars

\* A client was stopped while it slept between two attempts, and its retry
\* loop has found the stop signal.
C37_Witness ==
    \E c \in TimedClients :
       /\ clients[c].stop_signal
       /\ clients[c].stop_error = "AttributeError"
       /\ clients[c].pc = "failed"
       /\ clients[c].error = "UnboundLocalError"
       /\ clients[c].attempts >= 1

\* --------------------------------- tunnel management payloads: dump, parse
\* Largest command_size / response_size of the payloads that are built.
MaxCommandSize == 2

PayloadSizes == 0..MaxCommandSize

\* 256^n
RECURSIVE Pow256(_)
Pow256(n) == IF n = 0 THEN 1 ELSE 256 * Pow256(n - 1)

\* Payload values: the ends and the middle of each size's range.
PayloadValues(size) ==
    {v \in {0, 1, 255, 256, 65535, 65536, 16777215} : v < Pow256(size)}

\* int.to_bytes(n, "little")
to_bytes_little(value, n) == [k \in 1..n |-> ByteOf(value, k - 1)]

\* int.from_bytes(bytes, "little")
RECURSIVE from_bytes_little(_)
from_bytes_little(bytes) ==
    IF bytes = <<>> THEN 0 ELSE bytes[1] + 256 * from_bytes_little(Tail(bytes))

\* data[a:b] of Python, for 0 <= a <= b.
Slice(data, a, b) == SubSeq(data, a + 1, IF b < Len(data) THEN b ELSE Len(data))

\* A member of the enum TunnelManagementTargetType, and a plain int.
EnumMember(v) == [kind |-> "TunnelManagementTargetType", value |-> v]
PlainInt(v) == [kind |-> "int", value |-> v]

ValueError == [ok |-> FALSE, value |-> NoCall]
Returned(value) == [ok |-> TRUE, value |-> value]

\* TunnelManagementRequestPayload.dump
TunnelManagementRequestPayload_dump(p) ==
    to_bytes_little(p.port_or_ld_id, 1)
       \o to_bytes_little(p.target_type.value, 1)
       \o to_bytes_little(p.command_size, 2)
       \o to_bytes_little(p.command_payload, p.command_size)

\* TunnelManagementRequestPayload.parse
TunnelManagementRequestPayload_parse(data) ==
    LET port_or_ld_id == from_bytes_little(Slice(data, 0, 1))
        target_type == from_bytes_little(Slice(data, 1, 2))
        command_size == from_bytes_little(Slice(data, 2, 4))
        command_payload == from_bytes_little(Slice(data, 4, Len(data)))
    IN IF Len(data) # command_size
       THEN ValueError
       ELSE Returned([port_or_ld_id |-> port_or_ld_id,
                      target_type |-> PlainInt(target_type),
                      command_size |-> command_size,
                      command_payload |-> command_payload])

\* TunnelManagementResponsePayload.dump: the reserved bytes stay zero.
TunnelManagementResponsePayload_dump(r) ==
    to_bytes_little(r.response_size, 2)
       \o <<0, 0>>
       \o to_bytes_little(r.payload, r.response_size)

\* TunnelManagementResponsePayload.parse: cls(response_size, payload) gives
\* the payload to the second field of the dataclass, reserved; payload keeps
\* its default.
TunnelManagementResponsePayload_parse(data) ==
    LET response_size == from_bytes_little(Slice(data, 0, 2))
        payload == from_bytes_little(Slice(data, 4, Len(data)))
    IN IF Len(data) # response_size + 4
       THEN ValueError
       ELSE Returned([response_size |-> response_size, reserved |-> payload,
                      payload |-> 0])

RequestPayloads ==
    {p \in [port_or_ld_id : {0, 1}, target_type : {EnumMember(0), EnumMember(1)},
            command_size : PayloadSizes, command_payload : PayloadValues(MaxCommandSize)] :
        p.command_payload \in PayloadValues(p.command_size)}

ResponsePayloads ==
    {r \in [response_size : PayloadSizes, reserved : {0, 1},
            payload : PayloadValues(MaxCommandSize)] :
        r.payload \in PayloadValues(r.response_size)}

\* A payload of either class has been built.
InitPayload ==
    /\ SwitchQuiet
    /\ ManagerIdle
    /\ LifeIdle
    /\ cache_route_table = <<>>
    /\ HistoryIdle
    /\ PuttersIdle
    /\ ClockIdle
    /\ CciIdle
    /\ \/ created \in [ctor : {"TunnelManagementRequestPayload"}, p : RequestPayloads,
                       stage : {"built"}, data : {<<>>}, result : {NoCall}]
       \/ created \in [ctor : {"TunnelManagementResponsePayload"}, p : ResponsePayloads,
                       stage : {"built"}, data : {<<>>}, result : {NoCall}]

\* create_cci_request: request.dump()
TunnelManagementCommand_create_cci_request ==
    /\ created.ctor = "TunnelManagementRequestPayload" /\ created.stage = "built"
    /\ created' = [created EXCEPT !.stage = "dumped",
                                  !.data = TunnelManagementRequestPayload_dump(created.p)]
    /\ UNCHANGED <<mvars, lvars, last, vcs_id, bvars, qvars, tvars, cvars, dvars,
                   cxl_mem_packet, mem_target_port, nvars, cci_requests,
                   cci_executor, cci_h2t, cci_t2h, cci_responses>>

\* parse_request_payload: TunnelManagementRequestPayload.parse(payload)
TunnelManagementCommand_parse_request_payload ==
    /\ created.ctor = "TunnelManagementRequestPayload" /\ created.stage = "dumped"
    /\ created' = [created EXCEPT !.stage = "parsed",
                                  !.result = TunnelManagementRequestPayload_parse(created.data)]
    /\ UNCHANGED <<mvars, lvars, last, vcs_id, bvars, qvars, tvars, cvars, dvars,
                   cxl_mem_packet, mem_target_port, nvars, cci_requests,
                   cci_executor, cci_h2t, cci_t2h, cci_responses>>

\* The response payload is dumped.
ResponsePayloadDump ==
    /\ created.ctor = "TunnelManagementResponsePayload" /\ created.stage = "built"
    /\ created' = [created EXCEPT !.stage = "dumped",
                                  !.data = TunnelManagementResponsePayload_dump(created.p)]
    /\ UNCHANGED <<mvars, lvars, last, vcs_id, bvars, qvars, tvars, cvars, dvars,
                   cxl_mem_packet, mem_target_port, nvars, cci_requests,
                   cci_executor, cci_h2t, cci_t2h, cci_responses>>

\* The dumped bytes are parsed as a response payload.
ResponsePayloadParse ==
    /\ created.ctor = "TunnelManagementResponsePayload" /\ created.stage = "dumped"
    /\ created' = [created EXCEPT !.stage = "parsed",
                                  !.result = TunnelManagementResponsePayload_parse(created.data)]
    /\ UNCHANGED <<mvars, lvars, last, vcs_id, bvars, qvars, tvars, cvars, dvars,
                   cxl_mem_packet, mem_target_port, nvars, cci_requests,
                   cci_executor, cci_h2t, cci_t2h, cci_responses>>

NextPayload ==
    \/ TunnelManagementCommand_create_cci_request
    \/ TunnelManagementCommand_parse_request_payload
    \/ ResponsePayloadDump
    \/ ResponsePayloadParse

SpecPayload == InitPayload /\ [][NextPayload]_vars

\* ------------------------------------- claims: tunnel management payloads
Parsed(ctor) == created.ctor = ctor /\ created.stage = "parsed"

\* C38: for every TunnelManagementRequestPayload p whose command_payload
\* fits in command_size bytes, parse(p.dump()) succeeds and returns a payload
\* equal to p.
C38_RequestRoundTrip ==
    Parsed("TunnelManagementRequestPayload") =>
        /\ created.result.ok
        /\ created.result.value = created.p

\* What the code does: dump() writes command_size + 4 bytes, and parse
\* raises ValueError on them.
C38_ParseRejectsDump ==
    Parsed("TunnelManagementRequestPayload") =>
        /\ Len(created.data) = created.p.command_size + 4
        /\ created.result = ValueError

\* parse has raised ValueError on the dump of a payload with a two-byte
\* command.
C38_Witness ==
    /\ Parsed("TunnelManagementRequestPayload")
    /\ created.p.command_size = 2 /\ created.p.command_payload = 256
    /\ created.data = <<created.p.port_or_ld_id, created.p.target_type.value, 2, 0, 0, 1>>
    /\ ~created.result.ok

\* C39: for every TunnelManagementResponsePayload r whose payload fits in
\* response_size bytes, parse(r.dump()) succeeds and returns a payload with
\* the response_size, reserved and payload of r, and dump() produces
\* response_size + 4 bytes.
C39_ResponseRoundTrip ==
    Parsed("TunnelManagementResponsePayload") =>
        /\ created.result.ok
        /\ created.result.value = created.p
        /\ Len(created.data) = created.p.response_size + 4

\* What the code does: dump() produces response_size + 4 bytes and parse
\* accepts them and keeps response_size, but the payload comes back in the
\* field reserved, and payload is 0.
C39_ResponseSizeKept ==
    Parsed("TunnelManagementResponsePayload") =>
        /\ Len(created.data) = created.p.response_size + 4
        /\ created.result.ok
        /\ created.result.value.response_size = created.p.response_size
        /\ created.result.value.reserved = created.p.payload
        /\ created.result.value.payload = 0

\* parse has returned the payload 255 of a one-byte response in the field
\* reserved.
C39_Witness ==
    /\ Parsed("TunnelManagementResponsePayload")
    /\ created.p = [response_size |-> 1, reserved |-> 0, payload |-> 255]
    /\ created.result.ok
    /\ created.result.value = [response_size |-> 1, reserved |-> 255, payload |-> 0]

\* ------------------------------ CxlIoCfgReqPacket: get_cfg_addr_write_info
\* The scan for the lowest set bit counts its positions up to MaxPos: from
\* position 4 on the mask b is beyond the 4-bit field and every further
\* iteration finds the same, so beyond MaxPos only the parity of the
\* iterations is kept.
MaxPos == 6

RECURSIVE TwoTo(_)
TwoTo(n) == IF n = 0 THEN 1 ELSE 2 * TwoTo(n - 1)

\* x & y
RECURSIVE BitAnd(_, _)
BitAnd(x, y) ==
    IF x = 0 \/ y = 0 THEN 0
    ELSE (x % 2) * (y % 2) + 2 * BitAnd(x \div 2, y \div 2)

RECURSIVE ByteEnableBits(_, _)
\* fill, lines 495-498: size bits from bit offset on.
ByteEnableBits(offset, size) ==
    IF size = 0 THEN 0 ELSE TwoTo(offset) + ByteEnableBits(offset + 1, size - 1)

\* fill, lines 490-504: the header fields the address and the size go to.
CfgReq_fill(cfg_addr, size) ==
    [first_dw_be |-> ByteEnableBits(cfg_addr % 4, size),
     ext_reg_num |-> (cfg_addr \div 256) % 16,
     reg_num |-> (cfg_addr \div 4) % 64]

CfgAddrs == {0, 1, 2, 3, 4, 7, 254, 255, 256, 2748, 4093, 4095}
CfgSizes == 0..4

\* CfgWr packets: built by create(id, cfg_addr, size, value) with the
\* arguments fill accepts, or received with any header fields.
CfgWrPackets ==
    {[source |-> "create", cfg_addr |-> arg[1], size |-> arg[2],
      header |-> CfgReq_fill(arg[1], arg[2])] :
        arg \in {x \in CfgAddrs \X CfgSizes : (x[1] % 4) + x[2] <= 4}}
    \cup
    {[source |-> "received", cfg_addr |-> None, size |-> None,
      header |-> [first_dw_be |-> be, ext_reg_num |-> e, reg_num |-> r]] :
        be \in 0..15, e \in {0, 15}, r \in {0, 63}}

InitCfgWr ==
    /\ SwitchQuiet
    /\ ManagerIdle
    /\ LifeIdle
    /\ cache_route_table = <<>>
    /\ HistoryIdle
    /\ PuttersIdle
    /\ ClockIdle
    /\ CciIdle
    /\ \E packet \in CfgWrPackets :
          created = [ctor |-> "CxlIoCfgWrPacket", packet |-> packet, pc |-> "built",
                     be |-> 0, pos |-> 0, odd |-> FALSE, cfg_addr |-> 0,
                     size |-> 0, result |-> <<>>]

CodecFrame ==
    UNCHANGED <<mvars, lvars, last, vcs_id, bvars, qvars, tvars, cvars, dvars,
                cxl_mem_packet, mem_target_port, nvars, cci_requests,
                cci_executor, cci_h2t, cci_t2h, cci_responses>>

\* get_cfg_addr_write_info, lines 512-514.
WriteInfoBegin ==
    /\ created.ctor = "CxlIoCfgWrPacket" /\ created.pc = "built"
    /\ created' = [created EXCEPT !.pc = "scan",
                                  !.be = created.packet.header.first_dw_be,
                                  !.pos = 0]
    /\ CodecFrame

\* One test of `while be & b == 0` (lines 515-518), b being 1 << pos: the
\* body, or the exit with the address.
WriteInfoScan ==
    /\ created.ctor = "CxlIoCfgWrPacket" /\ created.pc = "scan"
    /\ LET h == created.packet.header
           reg_num == h.ext_reg_num * 64 + h.reg_num
       IN IF BitAnd(created.be, TwoTo(created.pos)) = 0
          THEN created' = [created EXCEPT
                              !.pos = IF @ < MaxPos THEN @ + 1 ELSE @,
                              !.odd = ~@]
          ELSE created' = [created EXCEPT !.pc = "count",
                                          !.cfg_addr = reg_num * 4 + created.pos,
                                          !.size = 0]
    /\ CodecFrame

\* One test of `while be != 0` (lines 520-523): the body, or the return.
WriteInfoCount ==
    /\ created.ctor = "CxlIoCfgWrPacket" /\ created.pc = "count"
    /\ IF created.be # 0
       THEN created' = [created EXCEPT !.be = BitAnd(@, @ - 1), !.size = @ + 1]
       ELSE created' = [created EXCEPT !.pc = "returned",
                                       !.result = <<created.cfg_addr, created.size>>]
    /\ CodecFrame

NextCfgWr ==
    \/ WriteInfoBegin
    \/ WriteInfoScan
    \/ WriteInfoCount

\* The call runs on as long as it has a next step.
SpecCfgWr == InitCfgWr /\ [][NextCfgWr]_vars /\ WF_vars(NextCfgWr)

\* ---------------------------------------- claims: get_cfg_addr_write_info
\* The index of the lowest set bit of a non-zero 4-bit value.
LowestSetBit(be) == Min({k \in 0..3 : BitAnd(be, TwoTo(k)) # 0})

\* What get_cfg_addr_write_info returns when it returns: the address
\* (ext_reg_num << 8) | (reg_num << 2) | lowest set bit of first_dw_be, and
\* for a packet built by create the cfg_addr and size it was given.
WriteInfoResult ==
    (created.ctor = "CxlIoCfgWrPacket" /\ created.pc = "returned") =>
        LET h == created.packet.header
        IN /\ created.result[1] =
                 h.ext_reg_num * 256 + h.reg_num * 4 + LowestSetBit(h.first_dw_be)
           /\ created.packet.source = "create" =>
                 created.result = <<created.packet.cfg_addr, created.packet.size>>

\* C40: get_cfg_addr_write_info terminates for every value of first_dw_be,
\* 0 included, and returns the address and size described above.
C40_WriteInfoTerminates ==
    /\ <>(created.pc = "returned")
    /\ []WriteInfoResult

\* What the code does: the call returns, with that result, for every
\* first_dw_be other than 0.
C40_WriteInfoTerminatesNonZero ==
    /\ (created.packet.header.first_dw_be # 0) ~> (created.pc = "returned")
    /\ []WriteInfoResult

\* The scan of a packet with first_dw_be = 0 has passed the four bits of the
\* field and goes on.
C40_Witness ==
    /\ created.ctor = "CxlIoCfgWrPacket"
    /\ created.packet.header.first_dw_be = 0
    /\ created.pc = "scan"
    /\ created.pos = MaxPos
    /\ ENABLED WriteInfoScan

\* A CfgWr built by create(id, 0xABC + 1, 2, value) has returned its
\* address and size.
C40_WitnessReturned ==
    /\ created.ctor = "CxlIoCfgWrPacket"
    /\ created.pc = "returned"
    /\ created.packet.source = "create"
    /\ created.result = <<4093, 2>>

====
